---------------------------- MODULE Spec2Model ----------------------------
(***************************************************************************)
(* Ping monitors of the repository, as state machines.                     *)
(*                                                                         *)
(*  prog = "dns"   dns-setter: eframe update() frames, the ping session    *)
(*                 (mpsc channel + probe worker thread), rolling history.  *)
(*  prog = "v2"    5-ping-test-v2: ping_thread and the SDL render loop     *)
(*                 sharing two mutexes.                                    *)
(*  prog = "test"  Test-rust: the print loop of main.                      *)
(*  prog = "class" the colour classification of a latency, both variants.  *)
(*                                                                         *)
(* A behaviour is a run of one of the programs; the variables of the       *)
(* other programs keep their initial values.                               *)
(***************************************************************************)
EXTENDS Integers, Sequences, FiniteSets, TLC

\* ------------------------------------------------------------------ bounds
\* A dns-setter run is explored in one of two shapes (the variable limits):
\* a single ping session of up to MaxProbes probes, long enough to fill the
\* history and evict from it, or up to MaxSessions sessions, opened and
\* closed one after the other, of up to ShortProbes probes each.
MaxProbes == 17
MaxSessions == 2
ShortProbes == 3
\* Number of probes that may fail in one run.
MaxFailures == 1
\* Number of values a channel holds unreceived: the worker sends once a
\* second, update() polls every frame.
MaxQueue == 2
\* Number of probes ping_thread of 5-ping-test-v2 makes in one run.
MaxV2Probes == 6
\* probes of ping_thread in the runs that look at the two mutexes only
LockProbes == 3
\* Largest latency (ms) whose classification is computed.
MaxLatency == 210
\* Probes in a rendered run of outcomes.
MaxRun == 3
\* Dot-separated parts of a text given to is_valid_ip.
MaxParts == 4
\* DNS operations started in a run.
MaxOps == 2

\* ------------------------------------------------------- program constants
\* dns-setter: capacity of ping_history (app.rs:405).
HistoryCap == 15
\* 5-ping-test-v2: capacity of rtt_history (main.rs:85).
V2HistoryCap == 5

\* Option::None, for the channel ends and for a failed probe's rtt.
None == 0

VARIABLES
    prog,
    limits,              \* the shape of the run explored (never changes)
    failures,            \* probes that failed so far (history variable)
    \* ---- dns-setter: MyApp fields and the PING_REQUEST static
    ui_pc,               \* position of the UI thread inside update()
    show_second_window,
    ping_value,
    ping_history,
    ping_sender,         \* None, or the id of the channel whose Sender is held
    ping_receiver,       \* None, or the id of the channel whose Receiver is held
    ping_request,        \* static PING_REQUEST
    \* ---- dns-setter: channels and worker threads, one per session id
    chan,                \* chan[c]: values sent and not yet received
    rx_alive,            \* rx_alive[c]: the Receiver of channel c exists
    w_pc,                \* "none" (not spawned), "probe", "send", "sleep", "done"
    w_val,               \* the value get_ping returned, to be sent
    w_n,                 \* w_n[c]: get_ping calls worker c made for its session
    \* ---- dns-setter: history variables (not program state)
    sent,                \* sent[c]: the values sent on channel c while its Receiver lives
    received,            \* values try_recv returned in the current session
    w_after,             \* w_after[c]: get_ping calls that returned after the drop
    w_fail,              \* w_fail[c]: send attempts that failed
    w_late,              \* w_late[c]: sends that succeeded after the drop
    \* ---- 5-ping-test-v2: ping_thread, the render loop, the two mutexes
    v2_pc,               \* position of ping_thread
    v2_rtt,              \* rtt: None, or <<ms>>
    v2_n,                \* probes made
    current_ping,        \* the String behind the current_ping mutex
    rtt_history,         \* the VecDeque<String> behind the rtt_history mutex
    cur_lock,            \* holder of the current_ping mutex: "free", "worker", "render"
    hist_lock,           \* holder of the rtt_history mutex
    r_pc,                \* position of the render loop
    r_color,             \* colour draw_current_ping last used
    r_hist_colors,       \* colours draw_ping_history last used, top line first
    v2_produced,         \* history lines of all completed probes (history variable)
    \* ---- Test-rust
    t_pc,
    t_text,              \* the String get_ping returned
    t_out,               \* the lines printed
    t_n,
    \* ---- classification of one latency
    cl_L,                \* the latency classified
    cl_done,             \* the three colours below are those of cl_L
    cl_dns,              \* dns-setter: ping_color
    cl_cur,              \* 5-ping-test-v2: colour of the current-ping line
    cl_hist,             \* 5-ping-test-v2: colour of the history line
    cl_prev,             \* the colours of latency cl_L - 1, or <<>>
    \* ---- rendering of a run of probe outcomes, both variants
    rd_in,               \* the outcomes of the probes, in order (never changes)
    rd_k,                \* outcomes delivered so far
    rd_pc,               \* the frame: "probe" (it begins), "request", "draw", "between"
    ping_color,          \* dns-setter: colour of the latest value
    chart_colors,        \* dns-setter: colours of the chart points, oldest first
    \* ---- dns-setter: one address field of the custom DNS window
    ip,                  \* the text of the field
    ip_pc,               \* "input" or "validated"
    ip_valid,            \* what is_valid_ip returned
    ip_reported,         \* what render_ip_input returned
    \* ---- dns-setter: DNS operations, MyApp fields
    o_pc,                \* position of the UI thread inside update()
    o_op,                \* handle_operation's argument while it runs: <<>> or <<op>>
    o_ret,               \* where update() goes on after handle_operation
    adapter,             \* Option<String>: <<>> or <<name>>
    dns,
    dns_state,
    app_state,
    selected_provider,
    custom_primary,
    custom_secondary,
    show_custom_dns_window,
    show_clear_confirmation,
    operation_sender,    \* None, or the id of the channel whose Sender is held
    operation_receiver,  \* None, or the id of the channel whose Receiver is held
    \* ---- dns-setter: DNS operations, channels and worker threads, one per id
    op_chan,             \* op_chan[c]: results sent and not yet received
    op_rx_alive,         \* op_rx_alive[c]: the Receiver of channel c exists
    ow_pc,               \* "none", "run", "wait", "send", "done", "panicked"
    ow_op,               \* the operation moved into the thread
    ow_adapter,          \* adapter_for_thread
    ow_result,           \* result: <<>> until computed, then <<r>>
    ow_cmds,             \* the netsh commands the thread has run, and how they ended
    ow_sends             \* calls of s.send(result) the thread has made

dnsUi == <<ui_pc, show_second_window, ping_value, ping_history, ping_sender,
           ping_receiver, ping_request>>
dnsWorkers == <<w_pc, w_val, w_n>>
dnsGhostW == <<w_after, w_fail, w_late>>
dnsAll == <<dnsUi, chan, rx_alive, dnsWorkers, sent, received, dnsGhostW>>
v2Worker == <<v2_pc, v2_rtt, v2_n, v2_produced>>
v2Render == <<r_pc, r_color, r_hist_colors>>
v2All == <<v2Worker, v2Render, current_ping, rtt_history, cur_lock, hist_lock>>
testAll == <<t_pc, t_text, t_out, t_n>>
classAll == <<cl_L, cl_done, cl_dns, cl_cur, cl_hist, cl_prev>>

renderAll == <<rd_in, rd_k, rd_pc, ping_color, chart_colors>>
ipAll == <<ip, ip_pc, ip_valid, ip_reported>>
opsUi == <<o_pc, o_op, o_ret, adapter, dns, dns_state, app_state, selected_provider,
           custom_primary, custom_secondary, show_custom_dns_window,
           show_clear_confirmation, operation_sender, operation_receiver>>
opsWorkers == <<ow_pc, ow_op, ow_adapter, ow_result, ow_cmds, ow_sends>>
opsAll == <<opsUi, op_chan, op_rx_alive, opsWorkers>>
extAll == <<renderAll, ipAll, opsAll>>
baseAll == <<failures, dnsAll, v2All, testAll, classAll>>

vars == <<prog, limits, baseAll, extAll>>

Sessions == 1..MaxSessions

\* --------------------------------------------------------------- helpers
LastN(s, n) == IF Len(s) <= n THEN s ELSE SubSeq(s, Len(s) - n + 1, Len(s))

Range(s) == {s[i] : i \in DOMAIN s}

Reverse(s) == [i \in 1..Len(s) |-> s[Len(s) + 1 - i]]

\* ------------------------------------------------------------ environment
\* Milliseconds measured by the k-th probe of worker c when the echo is
\* answered: distinct for distinct probes and workers, never 0, and spread
\* over the three colour bands.
Elapsed(c, k) == 20 * k + c

\* Error texts of a failed p.send().
ErrTexts == {<<"i", "o", " ", "e", "r", "r", "o", "r">>, <<"t", "i", "m", "e", "d", " ", "o", "u", "t">>}

\* ------------------------------------------------------------------ text
\* A String is the sequence of its characters.
DigitChars == <<"0", "1", "2", "3", "4", "5", "6", "7", "8", "9">>

\* format!("{}", n) of an unsigned integer.
RECURSIVE ToDigits(_)
ToDigits(n) ==
    IF n < 10 THEN <<DigitChars[n + 1]>>
    ELSE ToDigits(n \div 10) \o <<DigitChars[(n % 10) + 1]>>

IsDigit(ch) == \E d \in 1..10 : DigitChars[d] = ch
DigitVal(ch) == (CHOOSE d \in 1..10 : DigitChars[d] = ch) - 1

RECURSIVE DigitsValue(_)
DigitsValue(s) ==
    IF s = <<>> THEN 0
    ELSE 10 * DigitsValue(SubSeq(s, 1, Len(s) - 1)) + DigitVal(s[Len(s)])

\* str::parse::<u64>(): <<n>> for Ok(n), <<>> for Err. An optional "+", then
\* one or more decimal digits (texts here stay far below 2^64).
ParseU64(s) ==
    LET body == IF s # <<>> /\ s[1] = "+" THEN Tail(s) ELSE s
    IN  IF body = <<>> \/ \E i \in DOMAIN body : ~IsDigit(body[i])
        THEN <<>>
        ELSE <<DigitsValue(body)>>

\* Option/Result::unwrap_or.
UnwrapOr(opt, default) == IF opt = <<>> THEN default ELSE opt[1]

IsPrefix(p, s) == Len(p) <= Len(s) /\ SubSeq(s, 1, Len(p)) = p
IsSuffix(p, s) == Len(p) <= Len(s) /\ SubSeq(s, Len(s) - Len(p) + 1, Len(s)) = p

\* str::trim_start_matches / trim_end_matches with a non-empty pattern:
\* remove every repetition of the pattern at that end.
RECURSIVE TrimStartMatches(_, _)
TrimStartMatches(s, p) ==
    IF IsPrefix(p, s) THEN TrimStartMatches(SubSeq(s, Len(p) + 1, Len(s)), p) ELSE s

RECURSIVE TrimEndMatches(_, _)
TrimEndMatches(s, p) ==
    IF IsSuffix(p, s) THEN TrimEndMatches(SubSeq(s, 1, Len(s) - Len(p)), p) ELSE s

\* str::contains.
Contains(s, p) ==
    \E i \in 1..(Len(s) - Len(p) + 1) : SubSeq(s, i, i + Len(p) - 1) = p

\* The characters split_whitespace splits on, those of the Unicode property
\* White_Space: U+0009 to U+000D, the space, and the non-ASCII ones, each
\* written by its code point.
WhiteSpace ==
    {"\t", "\n", "\f", "\r", " ",
     "U+000B", "U+0085", "U+00A0", "U+1680", "U+2000", "U+2001", "U+2002", "U+2003",
     "U+2004", "U+2005", "U+2006", "U+2007", "U+2008", "U+2009", "U+200A", "U+2028",
     "U+2029", "U+202F", "U+205F", "U+3000"}

\* s.split_whitespace().next(): <<token>> or <<>>.
SplitWhitespaceFirst(s) ==
    LET starts == {i \in DOMAIN s : s[i] \notin WhiteSpace}
    IN  IF starts = {} THEN <<>>
        ELSE LET a == CHOOSE i \in starts : \A j \in starts : i <= j
                 ends == {i \in a..Len(s) : i = Len(s) \/ s[i + 1] \in WhiteSpace}
                 b == CHOOSE i \in ends : \A j \in ends : i <= j
             IN  <<SubSeq(s, a, b)>>

S_Initial == <<"P", "i", "n", "g", ":", " ", ".", ".", ".">>
S_PingFailed == <<"P", "i", "n", "g", " ", "f", "a", "i", "l", "e", "d">>
S_CurrentPing == <<"C", "u", "r", "r", "e", "n", "t", " ", "P", "i", "n", "g", ":", " ">>
S_Ms == <<" ", "m", "s">>
S_failed == <<"f", "a", "i", "l", "e", "d">>
S_9999 == <<"9", "9", "9", "9">>
S_PingFailedColon == <<"P", "i", "n", "g", " ", "f", "a", "i", "l", "e", "d", ":", " ">>

\* -------------------------------------------------------- classification
\* dns-setter, render_secondary_viewport (app.rs:925-933): ping_color.
PingColorNoSentinel(v) ==
    IF v < 100 THEN "green" ELSE IF v < 200 THEN "yellow" ELSE "red"
PingColor(v) ==
    IF v = 0 THEN "light_gray"
    ELSE IF v < 100 THEN "green"
    ELSE IF v < 200 THEN "yellow"
    ELSE "red"

\* dns-setter, render_secondary_viewport (app.rs:1007-1016, 1102-1112): the
\* colour of a chart point and of the segments that meet in it is line_color,
\* chosen from the current ping_value whatever the entry.
LineColorOfEntry(value, entry) == PingColor(entry)
LineColor(value, entry) == PingColor(value)

\* 5-ping-test-v2: the three bands, main.rs:119-125 and 162-168.
V2BandColorInclusive(ms) ==
    IF ms <= 100 THEN "green" ELSE IF ms <= 150 THEN "yellow" ELSE "red"
V2BandColor(ms) ==
    IF ms < 100 THEN "green" ELSE IF ms < 150 THEN "yellow" ELSE "red"

\* 5-ping-test-v2, ping_thread (main.rs:88-91): the history line of a result.
HistText(rtt) ==
    IF rtt = <<>> THEN S_PingFailed ELSE ToDigits(rtt[1]) \o S_Ms

\* 5-ping-test-v2, ping_thread (main.rs:95-98): the current-ping line.
CurText(rtt) ==
    IF rtt = <<>> THEN S_PingFailed ELSE S_CurrentPing \o ToDigits(rtt[1]) \o S_Ms

\* 5-ping-test-v2, draw_current_ping (main.rs:113-125).
CurrentColor(text) ==
    LET rtt_ms == UnwrapOr(ParseU64(TrimEndMatches(TrimStartMatches(text, S_CurrentPing),
                                                  S_Ms)), 9999)
    IN  V2BandColor(rtt_ms)

\* 5-ping-test-v2, draw_ping_history (main.rs:152-169), one line.
HistColor(text) ==
    IF Contains(text, S_failed) THEN "red"
    ELSE LET ms_value == UnwrapOr(ParseU64(UnwrapOr(SplitWhitespaceFirst(text), S_9999)),
                                  9999)
         IN  V2BandColor(ms_value)

\* ------------------------------------------------------------ dns-setter
\* get_ping (app.rs:1461-1478) on the outcome of p.send(): the elapsed whole
\* milliseconds when it is Ok, 0.0 when it is Err. (The literal "8.8.8.8"
\* always parses, so the early return of app.rs:1465 is never taken.)
get_ping_result_minus_one(send_ok, elapsed_ms) == IF send_ok THEN elapsed_ms ELSE 0 - 1
get_ping_result(send_ok, elapsed_ms) == IF send_ok THEN elapsed_ms ELSE 0

\* get_ping of probe k of worker c.
get_ping(ok, c, k) == get_ping_result(ok, Elapsed(c, k))

\* VecDeque push of update() (app.rs:405-408).
PushHistoryOffByOne(h, v) ==
    Append(IF Len(h) > HistoryCap THEN Tail(h) ELSE h, v)
PushHistoryFront(h, v) ==
    <<v>> \o (IF Len(h) >= HistoryCap THEN SubSeq(h, 1, Len(h) - 1) ELSE h)
PushHistory(h, v) ==
    Append(IF Len(h) >= HistoryCap THEN Tail(h) ELSE h, v)

\* mpsc::Sender::send: fails exactly when the Receiver has been dropped.
SendOk(c) == rx_alive[c]

\* The worker's reaction to the result of tx.send (app.rs:481-484):
\* break on Err, sleep on Ok.
AfterSendIgnoreErr(ok) == "sleep"
AfterSendInverted(ok) == IF ok THEN "done" ELSE "sleep"
AfterSend(ok) == IF ok THEN "sleep" ELSE "done"

\* The worker's step after get_ping returned (app.rs:480-481): whatever the
\* value, it goes on to send it.
AfterProbeStopOnFailure(v) == IF v = 0 THEN "done" ELSE "send"
AfterProbe(v) == "send"

\* How many queued values one poll of update() takes (app.rs:401): one
\* try_recv, so at most one.
PollCountDrain(q) == Len(q)
PollCount(q) == IF Len(q) > 0 THEN 1 ELSE 0

\* update(), app.rs:473: a session is opened only when none is open.
ShouldSpawnAlways(sender) == TRUE
ShouldSpawn(sender) == sender = None

\* render_secondary_viewport, app.rs:1148: ping_history.clear().
ClearHistoryKeep(h) == h
ClearHistory(h) == <<>>

\* The id given to the channel and worker of a new session.
NextSession == Cardinality({c \in Sessions : w_pc[c] # "none"}) + 1

\* MyApp::new (app.rs:104-121) and the statics.
InitDnsVars ==
    /\ ui_pc = "poll"
    /\ show_second_window = FALSE
    /\ ping_value = 0
    /\ ping_history = <<>>
    /\ ping_sender = None
    /\ ping_receiver = None
    /\ ping_request = FALSE
    /\ chan = [c \in Sessions |-> <<>>]
    /\ rx_alive = [c \in Sessions |-> FALSE]
    /\ w_pc = [c \in Sessions |-> "none"]
    /\ w_val = [c \in Sessions |-> 0]
    /\ w_n = [c \in Sessions |-> 0]
    /\ sent = [c \in Sessions |-> <<>>]
    /\ received = <<>>
    /\ w_after = [c \in Sessions |-> 0]
    /\ w_fail = [c \in Sessions |-> 0]
    /\ w_late = [c \in Sessions |-> 0]

\* update(), app.rs:399-411: one non-blocking receive on the ping channel.
PollPing ==
    /\ prog = "dns"
    /\ ui_pc = "poll"
    /\ ui_pc' = "titlebar"
    /\ LET q == IF ping_receiver = None THEN <<>> ELSE chan[ping_receiver]
           n == PollCount(q)
           got == SubSeq(q, 1, n)
           Fold[i \in 0..n] ==
               IF i = 0 THEN ping_history ELSE PushHistory(Fold[i - 1], got[i])
       IN  /\ ping_value' = IF n > 0 THEN got[n] ELSE ping_value
           /\ ping_history' = Fold[n]
           /\ chan' = IF n > 0
                      THEN [chan EXCEPT ![ping_receiver] = SubSeq(q, n + 1, Len(q))]
                      ELSE chan
           /\ received' = received \o got
    /\ UNCHANGED <<prog, limits, extAll, v2All, testAll, classAll, show_second_window, ping_sender, ping_receiver, ping_request,
                   rx_alive, dnsWorkers, sent, failures, dnsGhostW>>

\* title_bar_ui, app.rs:1400-1403, called from custom_window_frame inside
\* update() (app.rs:413): a click on the ping button stores the flag.
TitleBarUi(click) ==
    /\ prog = "dns"
    /\ ui_pc = "titlebar"
    /\ click => (ping_sender # None \/ NextSession <= limits.sessions)
    /\ ui_pc' = "request"
    /\ ping_request' = (click \/ ping_request)
    /\ UNCHANGED <<prog, limits, extAll, v2All, testAll, classAll, show_second_window, ping_value, ping_history, ping_sender,
                   ping_receiver, chan, rx_alive, dnsWorkers, sent, received,
                   failures, dnsGhostW>>

\* PING_REQUEST.swap(false, SeqCst), app.rs:472: the value left in the flag.
SwapLeavesFlag(flag) == flag
SwapLeaves(flag) == FALSE

\* update(), app.rs:471-489: swap the flag; open a session when none is open.
HandlePingRequest ==
    /\ prog = "dns"
    /\ ui_pc = "request"
    /\ ping_request' = SwapLeaves(ping_request)
    /\ IF ping_request
       THEN /\ show_second_window' = TRUE
            /\ ui_pc' = IF show_second_window THEN "render" ELSE "render_new"
            /\ IF ShouldSpawn(ping_sender)
               THEN LET c == NextSession
                    IN  /\ ping_sender' = c
                        /\ ping_receiver' = c
                        /\ rx_alive' = [rx_alive EXCEPT ![c] = TRUE]
                        /\ w_pc' = [w_pc EXCEPT ![c] = "probe"]
               ELSE UNCHANGED <<ping_sender, ping_receiver, rx_alive, w_pc>>
       ELSE /\ ui_pc' = "render"
            /\ UNCHANGED <<show_second_window, ping_sender, ping_receiver, rx_alive, w_pc>>
    /\ UNCHANGED <<prog, limits, extAll, v2All, testAll, classAll, ping_value, ping_history, chan, w_val, w_n, sent, received,
                   failures, dnsGhostW>>

\* self.ping_value = 0.0, app.rs:1147.
ResetValueKeep(v) == v
ResetValue(v) == 0

\* self.ping_sender.take(), app.rs:1145: what is left in the field.
TakeSenderKeep(sender) == sender
TakeSender(sender) == None

\* render_secondary_viewport, app.rs:916-919 and 1143-1149. close is
\* close_requested() of the ping viewport; a viewport first shown in this
\* frame (ui_pc = "render_new") has no close request yet. Dropping the
\* Receiver discards what is queued; the history variables of the channel
\* (sent, w_n) start afresh, nothing being delivered on it any more.
RenderSecondaryViewport(close) ==
    /\ prog = "dns"
    /\ ui_pc \in {"render", "render_new"}
    /\ close => (show_second_window /\ ui_pc = "render")
    /\ ui_pc' = "poll"
    /\ IF show_second_window /\ close
       THEN /\ show_second_window' = FALSE
            /\ ping_sender' = TakeSender(ping_sender)
            /\ ping_receiver' = None
            /\ ping_value' = ResetValue(ping_value)
            /\ ping_history' = ClearHistory(ping_history)
            /\ received' = <<>>
            /\ IF ping_receiver # None
               THEN /\ rx_alive' = [rx_alive EXCEPT ![ping_receiver] = FALSE]
                    /\ chan' = [chan EXCEPT ![ping_receiver] = <<>>]
                    /\ sent' = [sent EXCEPT ![ping_receiver] = <<>>]
                    /\ w_n' = [w_n EXCEPT ![ping_receiver] = 0]
               ELSE UNCHANGED <<rx_alive, chan, sent, w_n>>
       ELSE UNCHANGED <<show_second_window, ping_sender, ping_receiver, ping_value,
                        ping_history, received, rx_alive, chan, sent, w_n>>
    /\ UNCHANGED <<prog, limits, extAll, v2All, testAll, classAll, ping_request, w_pc, w_val, failures, dnsGhostW>>

\* Worker thread, app.rs:480: value = get_ping().
WorkerProbe(c, ok) ==
    /\ prog = "dns"
    /\ w_pc[c] = "probe"
    /\ w_n[c] < limits.probes
    /\ ~ok => failures < MaxFailures
    /\ LET v == get_ping(ok, c, w_n[c] + 1)
       IN  /\ w_val' = [w_val EXCEPT ![c] = v]
           /\ w_pc' = [w_pc EXCEPT ![c] = AfterProbe(v)]
    /\ w_n' = [w_n EXCEPT ![c] = @ + 1]
    /\ failures' = IF ok THEN failures ELSE failures + 1
    /\ w_after' = IF rx_alive[c] THEN w_after ELSE [w_after EXCEPT ![c] = @ + 1]
    /\ UNCHANGED <<prog, limits, extAll, v2All, testAll, classAll, dnsUi, chan, rx_alive, sent, received, w_fail, w_late>>

\* Worker thread, app.rs:481-483: tx.send(value); break when it fails.
WorkerSend(c) ==
    /\ prog = "dns"
    /\ w_pc[c] = "send"
    /\ Len(chan[c]) < MaxQueue
    /\ LET ok == SendOk(c)
           to == AfterSend(ok)
       IN  /\ w_pc' = [w_pc EXCEPT ![c] = to]
           \* the locals of a thread that returned are gone
           /\ w_val' = IF to = "done" THEN [w_val EXCEPT ![c] = 0] ELSE w_val
           /\ w_n' = IF to = "done" THEN [w_n EXCEPT ![c] = 0] ELSE w_n
           /\ IF ok
              THEN /\ chan' = [chan EXCEPT ![c] = Append(@, w_val[c])]
                   /\ sent' = [sent EXCEPT ![c] = Append(@, w_val[c])]
                   /\ w_late' = IF rx_alive[c] THEN w_late
                                ELSE [w_late EXCEPT ![c] = @ + 1]
                   /\ UNCHANGED w_fail
              ELSE /\ w_fail' = [w_fail EXCEPT ![c] = @ + 1]
                   /\ UNCHANGED <<chan, sent, w_late>>
    /\ UNCHANGED <<prog, limits, extAll, v2All, testAll, classAll, dnsUi, rx_alive, received, failures, w_after>>

\* Worker thread, app.rs:484: the one-second sleep ends, the loop goes round.
WorkerSleep(c) ==
    /\ prog = "dns"
    /\ w_pc[c] = "sleep"
    /\ w_pc' = [w_pc EXCEPT ![c] = "probe"]
    /\ UNCHANGED <<prog, limits, extAll, v2All, testAll, classAll, dnsUi, chan, rx_alive, w_val, w_n, sent, received,
                   failures, dnsGhostW>>

Shapes == {[sessions |-> 1, probes |-> MaxProbes],
           [sessions |-> MaxSessions, probes |-> ShortProbes]}

NextDns ==
    \/ PollPing
    \/ \E click \in BOOLEAN : TitleBarUi(click)
    \/ HandlePingRequest
    \/ \E close \in BOOLEAN : RenderSecondaryViewport(close)
    \/ \E c \in Sessions, ok \in BOOLEAN : WorkerProbe(c, ok)
    \/ \E c \in Sessions : WorkerSend(c)
    \/ \E c \in Sessions : WorkerSleep(c)

\* --------------------------------------------------------- 5-ping-test-v2
\* ping_thread, main.rs:85-88: pop_front when 5 are held, then push_back.
V2PushHistory(h, line) ==
    Append(IF Len(h) >= V2HistoryCap THEN Tail(h) ELSE h, line)

\* A MutexGuard goes out of scope (main.rs:92, 99, 111, 183): the mutex is
\* free.
UnlockNever(holder) == holder
Unlock(holder) == "free"

\* main, main.rs:36-43.
InitV2Vars ==
    /\ v2_pc = "probe"
    /\ v2_rtt = <<>>
    /\ v2_n = 0
    /\ current_ping = S_Initial
    /\ rtt_history = <<>>
    /\ cur_lock = "free"
    /\ hist_lock = "free"
    /\ r_pc = "draw_current"
    /\ r_color = "none"
    /\ r_hist_colors = <<>>
    /\ v2_produced = <<>>

\* ping_thread, main.rs:78-82: one probe; rtt is the elapsed whole
\* milliseconds, or None when p.send() fails.
V2Probe(ok) ==
    /\ prog = "v2"
    /\ v2_pc = "probe"
    /\ v2_n < limits.probes
    /\ ~ok => failures < MaxFailures
    /\ LET rtt == IF ok THEN <<Elapsed(1, v2_n + 1)>> ELSE <<>>
       IN  /\ v2_rtt' = rtt
           /\ v2_produced' = Append(v2_produced, HistText(rtt))
    /\ v2_n' = v2_n + 1
    /\ failures' = IF ok THEN failures ELSE failures + 1
    /\ v2_pc' = "try_hist"
    /\ UNCHANGED <<prog, limits, extAll, dnsAll, testAll, classAll, v2Render, current_ping,
                   rtt_history, cur_lock, hist_lock>>

\* ping_thread, main.rs:84: rtt_history.try_lock(); the block is skipped
\* when the mutex is held.
V2TryLockHistory ==
    /\ prog = "v2"
    /\ v2_pc = "try_hist"
    /\ IF hist_lock = "free"
       THEN hist_lock' = "worker" /\ v2_pc' = "push_hist"
       ELSE hist_lock' = hist_lock /\ v2_pc' = "try_cur"
    /\ UNCHANGED <<prog, limits, extAll, failures, dnsAll, testAll, classAll, v2Render,
                   v2_rtt, v2_n, v2_produced, current_ping, rtt_history, cur_lock>>

\* ping_thread, main.rs:85-92: push under the lock, then the guard is dropped.
V2PushHist ==
    /\ prog = "v2"
    /\ v2_pc = "push_hist"
    /\ rtt_history' = V2PushHistory(rtt_history, HistText(v2_rtt))
    /\ hist_lock' = Unlock(hist_lock)
    /\ v2_pc' = "try_cur"
    /\ UNCHANGED <<prog, limits, extAll, failures, dnsAll, testAll, classAll, v2Render,
                   v2_rtt, v2_n, v2_produced, current_ping, cur_lock>>

\* ping_thread, main.rs:94: current_ping.try_lock().
V2TryLockCurrent ==
    /\ prog = "v2"
    /\ v2_pc = "try_cur"
    /\ IF cur_lock = "free"
       THEN cur_lock' = "worker" /\ v2_pc' = "set_cur"
       ELSE cur_lock' = cur_lock /\ v2_pc' = "sleep"
    /\ UNCHANGED <<prog, limits, extAll, failures, dnsAll, testAll, classAll, v2Render,
                   v2_rtt, v2_n, v2_produced, current_ping, rtt_history, hist_lock>>

\* ping_thread, main.rs:95-99: overwrite the text, drop the guard.
V2SetCurrent ==
    /\ prog = "v2"
    /\ v2_pc = "set_cur"
    /\ current_ping' = CurText(v2_rtt)
    /\ cur_lock' = Unlock(cur_lock)
    /\ v2_pc' = "sleep"
    /\ UNCHANGED <<prog, limits, extAll, failures, dnsAll, testAll, classAll, v2Render,
                   v2_rtt, v2_n, v2_produced, rtt_history, hist_lock>>

\* ping_thread, main.rs:101: the sleep ends, the loop goes round.
V2Sleep ==
    /\ prog = "v2"
    /\ v2_pc = "sleep"
    /\ v2_pc' = "probe"
    /\ UNCHANGED <<prog, limits, extAll, failures, dnsAll, testAll, classAll, v2Render,
                   v2_rtt, v2_n, v2_produced, current_ping, rtt_history, cur_lock,
                   hist_lock>>

\* draw_current_ping, main.rs:111: current_ping.lock() (blocking) is granted.
LockCurrent ==
    /\ prog = "v2"
    /\ r_pc = "draw_current"
    /\ cur_lock = "free"
    /\ cur_lock' = "render"
    /\ r_pc' = "clone_current"
    /\ UNCHANGED <<prog, limits, extAll, failures, dnsAll, testAll, classAll, v2Worker,
                   r_color, r_hist_colors, current_ping, rtt_history, hist_lock>>

\* draw_current_ping, main.rs:111-125: the text is cloned and the guard
\* dropped at the end of the statement, then the colour of the cloned text.
DrawCurrentPing ==
    /\ prog = "v2"
    /\ r_pc = "clone_current"
    /\ r_color' = CurrentColor(current_ping)
    /\ cur_lock' = Unlock(cur_lock)
    /\ r_pc' = "lock_history"
    /\ UNCHANGED <<prog, limits, extAll, failures, dnsAll, testAll, classAll, v2Worker,
                   r_hist_colors, current_ping, rtt_history, hist_lock>>

\* draw_ping_history, main.rs:147: rtt_history.lock() (blocking); the guard
\* lives until the function returns.
LockHistory ==
    /\ prog = "v2"
    /\ r_pc = "lock_history"
    /\ hist_lock = "free"
    /\ hist_lock' = "render"
    /\ r_pc' = "draw_history"
    /\ UNCHANGED <<prog, limits, extAll, failures, dnsAll, testAll, classAll, v2Worker,
                   r_color, r_hist_colors, current_ping, rtt_history, cur_lock>>

\* draw_ping_history, main.rs:150-183: the lines newest first, each with its
\* colour; then the guard is dropped and main presents and sleeps 16 ms.
DrawPingHistory ==
    /\ prog = "v2"
    /\ r_pc = "draw_history"
    /\ r_hist_colors' = [i \in 1..Len(rtt_history) |-> HistColor(Reverse(rtt_history)[i])]
    /\ hist_lock' = Unlock(hist_lock)
    /\ r_pc' = "draw_current"
    /\ UNCHANGED <<prog, limits, extAll, failures, dnsAll, testAll, classAll, v2Worker,
                   r_color, current_ping, rtt_history, cur_lock>>

NextV2 ==
    \/ \E ok \in BOOLEAN : V2Probe(ok)
    \/ V2TryLockHistory
    \/ V2PushHist
    \/ V2TryLockCurrent
    \/ V2SetCurrent
    \/ V2Sleep
    \/ LockCurrent
    \/ DrawCurrentPing
    \/ LockHistory
    \/ DrawPingHistory

\* -------------------------------------------------------------- Test-rust
InitTestVars ==
    /\ t_pc = "probe"
    /\ t_text = <<>>
    /\ t_out = <<>>
    /\ t_n = 0

\* get_ping, Test-rust main.rs:11-26: the milliseconds as text, or
\* "Ping failed: " followed by the error.
TestGetPing(ok, k, err) ==
    IF ok THEN ToDigits(Elapsed(1, k)) ELSE S_PingFailedColon \o err

\* main, main.rs:6: get_ping() is evaluated.
TestProbe(ok, err) ==
    /\ prog = "test"
    /\ t_pc = "probe"
    /\ t_n < ShortProbes
    /\ ~ok => failures < MaxFailures
    /\ t_text' = TestGetPing(ok, t_n + 1, err)
    /\ t_n' = t_n + 1
    /\ failures' = IF ok THEN failures ELSE failures + 1
    /\ t_pc' = "print"
    /\ UNCHANGED <<prog, limits, extAll, dnsAll, v2All, classAll, t_out>>

\* main, main.rs:6: println!.
TestPrint ==
    /\ prog = "test"
    /\ t_pc = "print"
    /\ t_out' = Append(t_out, t_text)
    /\ t_pc' = "sleep"
    /\ UNCHANGED <<prog, limits, extAll, failures, dnsAll, v2All, classAll, t_text, t_n>>

\* main, main.rs:7: the sleep ends, the loop goes round.
TestSleep ==
    /\ prog = "test"
    /\ t_pc = "sleep"
    /\ t_pc' = "probe"
    /\ UNCHANGED <<prog, limits, extAll, failures, dnsAll, v2All, classAll, t_text, t_out, t_n>>

NextTest ==
    \/ \E ok \in BOOLEAN, err \in ErrTexts : TestProbe(ok, err)
    \/ TestPrint
    \/ TestSleep

\* --------------------------------------------------------- classification
InitClassVars ==
    /\ cl_done = FALSE
    /\ cl_dns = "none"
    /\ cl_cur = "none"
    /\ cl_hist = "none"
    /\ cl_prev = <<>>

\* The three renderers applied to one latency L: dns-setter colours the
\* value get_ping returned; 5-ping-test-v2 colours the texts ping_thread
\* stored for it.
Classify ==
    /\ prog = "class"
    /\ ~cl_done
    /\ cl_done' = TRUE
    /\ cl_dns' = PingColor(cl_L)
    /\ cl_cur' = CurrentColor(CurText(<<cl_L>>))
    /\ cl_hist' = HistColor(HistText(<<cl_L>>))
    /\ UNCHANGED <<prog, limits, extAll, failures, dnsAll, v2All, testAll, cl_L, cl_prev>>

\* The next latency, one millisecond more.
NextLatency ==
    /\ prog = "class"
    /\ cl_done
    /\ cl_L < MaxLatency
    /\ cl_prev' = <<cl_dns, cl_cur, cl_hist>>
    /\ cl_L' = cl_L + 1
    /\ cl_done' = FALSE
    /\ UNCHANGED <<prog, limits, extAll, failures, dnsAll, v2All, testAll, cl_dns, cl_cur, cl_hist>>

NextClass == Classify \/ NextLatency

\* ------------------------------------------------- rendering of a run
\* A variant (limits.variant) is given a run of probe outcomes, one probe at
\* a time: the result is stored as the program stores it and frames are
\* drawn as the program draws them. An outcome is the result of p.send() and
\* the whole milliseconds that elapsed.
RenderLatencies == {0, 50, 120, 170, 250}
RenderRuns ==
    [1..MaxRun -> {[ok |-> FALSE, ms |-> 0]}
                      \cup {[ok |-> TRUE, ms |-> m] : m \in RenderLatencies}]

InitRenderVars ==
    /\ rd_in \in (IF prog = "render" THEN RenderRuns ELSE {<<>>})
    /\ rd_k = 0
    /\ rd_pc = "probe"
    /\ ping_color = "none"
    /\ chart_colors = <<>>

dnsRest == <<ui_pc, show_second_window, ping_sender, ping_receiver, ping_request,
            chan, rx_alive, dnsWorkers, sent, received, dnsGhostW>>
v2Rest == <<v2Worker, r_pc, cur_lock, hist_lock>>

\* render_secondary_viewport, app.rs:1084-1113: the chart is drawn when the
\* history has more than one entry, every point in line_color.
ChartColors(value, history) ==
    IF Len(history) > 1
    THEN [i \in 1..Len(history) |-> LineColor(value, history[i])]
    ELSE <<>>

\* dns-setter: the ping poll of a frame of update() (app.rs:399-411): with a
\* Receiver held, one try_recv; the value it finds becomes ping_value and the
\* newest entry of ping_history. Without a Receiver, and on an empty channel,
\* the fields stay as they are.
RenderDeliver ==
    /\ prog = "render"
    /\ limits.variant = "dns"
    /\ rd_pc = "probe"
    /\ LET q == IF ping_receiver = None THEN <<>> ELSE chan[ping_receiver]
           n == PollCount(q)
       IN  /\ ping_value' = IF n > 0 THEN q[1] ELSE ping_value
           /\ ping_history' = IF n > 0 THEN PushHistory(ping_history, q[1])
                              ELSE ping_history
           /\ chan' = IF n > 0 THEN [chan EXCEPT ![ping_receiver] = Tail(q)] ELSE chan
           /\ received' = received \o SubSeq(q, 1, n)
           /\ rd_k' = rd_k + n
    /\ rd_pc' = "request"
    /\ UNCHANGED <<prog, limits, failures, testAll, classAll, ipAll, opsAll, v2Rest,
                   ui_pc, show_second_window, ping_sender, ping_receiver, ping_request,
                   rx_alive, dnsWorkers, sent, dnsGhostW,
                   rtt_history, current_ping, r_color, r_hist_colors, rd_in, ping_color,
                   chart_colors>>

\* dns-setter: the ping button and the request of a frame of update()
\* (app.rs:1400-1403, 471-489): a click stores PING_REQUEST, the swap takes
\* it, the window is shown and, when no Sender is held, the channel is
\* created and the worker spawned.
RenderHandlePingRequest(click) ==
    /\ prog = "render"
    /\ limits.variant = "dns"
    /\ rd_pc = "request"
    /\ ping_request' = SwapLeaves(click \/ ping_request)
    /\ IF click \/ ping_request
       THEN /\ show_second_window' = TRUE
            /\ IF ShouldSpawn(ping_sender)
               THEN LET c == NextSession
                    IN  /\ ping_sender' = c
                        /\ ping_receiver' = c
                        /\ rx_alive' = [rx_alive EXCEPT ![c] = TRUE]
                        /\ w_pc' = [w_pc EXCEPT ![c] = "probe"]
               ELSE UNCHANGED <<ping_sender, ping_receiver, rx_alive, w_pc>>
       ELSE UNCHANGED <<show_second_window, ping_sender, ping_receiver, rx_alive, w_pc>>
    /\ rd_pc' = "draw"
    /\ UNCHANGED <<prog, limits, failures, testAll, classAll, ipAll, opsAll, v2Rest,
                   ui_pc, chan, w_val, w_n, sent, received, dnsGhostW,
                   ping_value, ping_history, rtt_history, current_ping, r_color,
                   r_hist_colors, rd_in, rd_k, ping_color, chart_colors>>

\* dns-setter: the rest of the frame, render_secondary_viewport
\* (app.rs:916-933, 1005-1113): nothing is drawn while the window is not
\* shown; a shown window is drawn in every frame, a value received in it or
\* not. The viewport is not closed in these runs.
RenderDraw ==
    /\ prog = "render"
    /\ limits.variant = "dns"
    /\ rd_pc = "draw"
    /\ IF show_second_window
       THEN /\ ping_color' = PingColor(ping_value)
            /\ chart_colors' = ChartColors(ping_value, ping_history)
       ELSE UNCHANGED <<ping_color, chart_colors>>
    /\ rd_pc' = "probe"
    /\ UNCHANGED <<prog, limits, failures, testAll, classAll, ipAll, opsAll, dnsRest, v2Rest,
                   ping_value, ping_history, rtt_history, current_ping, r_color,
                   r_hist_colors, rd_in, rd_k>>

\* dns-setter: one turn of the loop of the worker (app.rs:479-484): the next
\* probe of the run ends, get_ping returns its value, the value is sent to
\* the Receiver the UI holds, and the thread has slept.
RenderWorkerTurn(c) ==
    /\ prog = "render"
    /\ limits.variant = "dns"
    /\ w_pc[c] = "probe"
    /\ SendOk(c)
    /\ w_n[c] < Len(rd_in)
    /\ LET o == rd_in[w_n[c] + 1]
           value == get_ping_result(o.ok, o.ms)
       IN  /\ w_val' = [w_val EXCEPT ![c] = value]
           /\ chan' = [chan EXCEPT ![c] = Append(@, value)]
           /\ sent' = [sent EXCEPT ![c] = Append(@, value)]
    /\ w_n' = [w_n EXCEPT ![c] = @ + 1]
    /\ UNCHANGED <<prog, limits, failures, testAll, classAll, ipAll, opsAll, v2Rest,
                   dnsUi, rx_alive, w_pc, received, dnsGhostW,
                   rtt_history, current_ping, r_color, r_hist_colors,
                   renderAll>>

\* 5-ping-test-v2: the next probe ends and ping_thread stores its history
\* line when try_lock gives it rtt_history (main.rs:79-92), which fails
\* while the render loop holds the mutex inside draw_ping_history (held).
\* The guard is dropped before ping_thread goes on to current_ping.
RenderStoreHistory(held) ==
    /\ prog = "render"
    /\ limits.variant = "v2"
    /\ v2_pc = "probe"
    /\ rd_k < Len(rd_in)
    /\ LET o == rd_in[rd_k + 1]
           rtt == IF o.ok THEN <<o.ms>> ELSE <<>>
       IN  rtt_history' = IF held THEN rtt_history
                          ELSE V2PushHistory(rtt_history, HistText(rtt))
    /\ rd_k' = rd_k + 1
    /\ v2_pc' = "try_cur"
    /\ UNCHANGED <<prog, limits, failures, testAll, classAll, ipAll, opsAll, dnsRest,
                   v2_rtt, v2_n, v2_produced, r_pc, cur_lock, hist_lock,
                   ping_value, ping_history, current_ping, r_color, r_hist_colors,
                   rd_in, rd_pc, ping_color, chart_colors>>

\* 5-ping-test-v2: ping_thread stores the current-ping line of the probe
\* that ended when try_lock gives it current_ping (main.rs:94-99), which
\* fails while the render loop holds the mutex inside draw_current_ping
\* (held); it sleeps and probes again (main.rs:101, 78).
RenderStoreCurrent(held) ==
    /\ prog = "render"
    /\ limits.variant = "v2"
    /\ v2_pc = "try_cur"
    /\ LET o == rd_in[rd_k]
           rtt == IF o.ok THEN <<o.ms>> ELSE <<>>
       IN  current_ping' = IF held THEN current_ping ELSE CurText(rtt)
    /\ v2_pc' = "probe"
    /\ UNCHANGED <<prog, limits, failures, testAll, classAll, ipAll, opsAll, dnsRest,
                   v2_rtt, v2_n, v2_produced, r_pc, cur_lock, hist_lock,
                   ping_value, ping_history, rtt_history, r_color, r_hist_colors,
                   rd_in, rd_k, rd_pc, ping_color, chart_colors>>

\* 5-ping-test-v2: the first draw call of a frame, draw_current_ping
\* (main.rs:111-125).
RenderDrawCurrentPing ==
    /\ prog = "render"
    /\ limits.variant = "v2"
    /\ rd_pc = "probe"
    /\ r_color' = CurrentColor(current_ping)
    /\ rd_pc' = "between"
    /\ UNCHANGED <<prog, limits, failures, testAll, classAll, ipAll, opsAll, dnsRest, v2Rest,
                   ping_value, ping_history, rtt_history, current_ping, r_hist_colors,
                   rd_in, rd_k, ping_color, chart_colors>>

\* 5-ping-test-v2: the second draw call of a frame, draw_ping_history
\* (main.rs:147-169), the newest line first.
RenderDrawPingHistory ==
    /\ prog = "render"
    /\ limits.variant = "v2"
    /\ rd_pc = "between"
    /\ r_hist_colors' = [i \in 1..Len(rtt_history) |-> HistColor(Reverse(rtt_history)[i])]
    /\ rd_pc' = "probe"
    /\ UNCHANGED <<prog, limits, failures, testAll, classAll, ipAll, opsAll, dnsRest, v2Rest,
                   ping_value, ping_history, rtt_history, current_ping, r_color,
                   rd_in, rd_k, ping_color, chart_colors>>

NextRender ==
    \/ RenderDeliver
    \/ \E click \in BOOLEAN : RenderHandlePingRequest(click)
    \/ RenderDraw
    \/ \E c \in Sessions : RenderWorkerTurn(c)
    \/ \E held \in BOOLEAN : RenderStoreHistory(held)
    \/ \E held \in BOOLEAN : RenderStoreCurrent(held)
    \/ RenderDrawCurrentPing
    \/ RenderDrawPingHistory

\* ------------------------------------------- dns-setter: address fields
\* str::parse::<u8>(): <<n>> for Ok(n), <<>> for Err: as parse::<u64>(), and
\* a value above 255 is an overflow error.
ParseU8(s) ==
    LET r == ParseU64(s)
    IN  IF r # <<>> /\ r[1] > 255 THEN <<>> ELSE r

\* str::split(sep).collect(): the parts between the separators; a text
\* without separator is one part, the empty text is one empty part.
RECURSIVE Split(_, _)
Split(s, sep) ==
    LET at == {i \in DOMAIN s : s[i] = sep}
    IN  IF at = {} THEN <<s>>
        ELSE LET k == CHOOSE i \in at : \A j \in at : i <= j
             IN  <<SubSeq(s, 1, k - 1)>> \o Split(SubSeq(s, k + 1, Len(s)), sep)

\* is_valid_ip, app.rs:584-596.
is_valid_ip(text) ==
    LET parts == Split(text, ".")
    IN  IF Len(parts) # 4 THEN FALSE
        ELSE \A i \in DOMAIN parts : ParseU8(parts[i]) # <<>>

\* render_ip_input, app.rs:581: the value returned.
render_ip_input(text) == text = <<>> \/ is_valid_ip(text)

\* The texts typed into a field: up to MaxParts parts joined by dots.
IpParts ==
    {<<>>, <<"0">>, <<"1">>, <<"2", "5", "5">>, <<"2", "5", "6">>, <<"+", "1">>,
     <<"-", "1">>, <<"0", "0", "0", "1">>, <<"a">>}

RECURSIVE Join(_)
Join(parts) ==
    IF Len(parts) = 1 THEN parts[1]
    ELSE parts[1] \o <<".">> \o Join(Tail(parts))

IpTexts == {Join(ps) : ps \in UNION {[1..n -> IpParts] : n \in 1..MaxParts}}

InitIpVars ==
    /\ ip \in (IF prog = "ip" THEN IpTexts ELSE {<<>>})
    /\ ip_pc = "input"
    /\ ip_valid = FALSE
    /\ ip_reported = FALSE

\* One frame of the custom DNS window draws the field: render_ip_input,
\* app.rs:559-582.
RenderIpInput ==
    /\ prog = "ip"
    /\ ip_pc = "input"
    /\ ip_valid' = is_valid_ip(ip)
    /\ ip_reported' = render_ip_input(ip)
    /\ ip_pc' = "validated"
    /\ UNCHANGED <<prog, limits, baseAll, renderAll, opsAll, ip>>

NextIp == RenderIpInput

\* ------------------------------------------- dns-setter: DNS operations
\* In this part a literal of the source that no operation looks inside is
\* written as one element of the String; addresses are written out.
Ops == 1..MaxOps

\* An address literal.
Quad(a, b, c, d) ==
    ToDigits(a) \o <<".">> \o ToDigits(b) \o <<".">> \o ToDigits(c) \o <<".">> \o ToDigits(d)

\* domain.rs:14-58: the constructors of DnsProvider.
electro == [name |-> "Electro", primary |-> Quad(78, 157, 42, 100),
            secondary |-> Quad(78, 157, 42, 101)]
radar == [name |-> "Radar", primary |-> Quad(10, 202, 10, 10),
          secondary |-> Quad(10, 202, 10, 11)]
shekan == [name |-> "Shekan", primary |-> Quad(178, 22, 122, 100),
           secondary |-> Quad(185, 51, 200, 2)]
bogzar == [name |-> "Bogzar", primary |-> Quad(185, 55, 226, 26),
           secondary |-> Quad(185, 55, 225, 25)]
quad9 == [name |-> "Quad9", primary |-> Quad(9, 9, 9, 9),
          secondary |-> Quad(149, 112, 112, 112)]
custom(primary, secondary) ==
    [name |-> "Custom", primary |-> primary, secondary |-> secondary]

\* DnsProvider::get_servers, domain.rs:61-70.
get_servers(provider) == <<provider.primary, provider.secondary>>

\* domain.rs:99-103: DnsOperation. Clear and Test carry no provider.
NoProvider == [name |-> "", primary |-> <<>>, secondary |-> <<>>]
OpSet(provider) == [kind |-> "Set", provider |-> provider]
OpClear == [kind |-> "Clear", provider |-> NoProvider]
OpTest == [kind |-> "Test", provider |-> NoProvider]

\* domain.rs:107-111 and 115-122: OperationResult and AppState.
ResSuccess(msg) == [tag |-> "Success", msg |-> msg]
ResError(msg) == [tag |-> "Error", msg |-> msg]
ResWarning(msg) == [tag |-> "Warning", msg |-> msg]
Idle == [tag |-> "Idle", msg |-> <<>>]
Processing == [tag |-> "Processing", msg |-> <<>>]

\* domain.rs:126-131: DnsState.
DnsNone == [tag |-> "None", servers |-> <<>>]
DnsDhcp == [tag |-> "Dhcp", servers |-> <<>>]
DnsStatic(servers) == [tag |-> "Static", servers |-> servers]

S_NoInternet == <<"No Internet Connection Found">>

\* What a run of netsh can do (run_netsh, system.rs:12-23): fail to start
\* (spawn().expect() panics), start and fail to be waited for
\* (wait_with_output().expect() panics), or exit with a status, its output
\* captured.
NetshFailed ==
    [launched |-> FALSE, ended |-> FALSE, success |-> FALSE, stdout |-> <<>>, stderr |-> <<>>]
NetshLost ==
    [launched |-> TRUE, ended |-> FALSE, success |-> FALSE, stdout |-> <<>>, stderr |-> <<>>]
NetshExit(success, stdout, stderr) ==
    [launched |-> TRUE, ended |-> TRUE, success |-> success, stdout |-> stdout,
     stderr |-> stderr]

\* String::from_utf8_lossy: every invalid byte sequence becomes U+FFFD.
FromUtf8Lossy(bytes) ==
    [i \in DOMAIN bytes |-> IF bytes[i] = "\\xFF" THEN "U+FFFD" ELSE bytes[i]]

\* The stderr a failing netsh leaves.
StderrBytes == {<<"The parameter is incorrect.", "\\xFF">>}

\* The outcomes of a set / add / source=dhcp command.
CmdOutcomes ==
    {NetshFailed, NetshLost, NetshExit(TRUE, <<>>, <<>>)}
        \cup {NetshExit(FALSE, <<>>, e) : e \in StderrBytes}

\* The netsh commands, system.rs:58-66, 76-84, 102-109, 41-47, 27.
CmdSetPrimary(interface, primary) ==
    <<<<"interface">>, <<"ipv4">>, <<"set">>, <<"dns">>, <<"name=">> \o interface, <<"static">>, primary>>
CmdAddSecondary(interface, secondary) ==
    <<<<"interface">>, <<"ipv4">>, <<"add">>, <<"dns">>, <<"name=">> \o interface, secondary, <<"index=2">>>>
CmdClear(interface) ==
    <<<<"interface">>, <<"ipv4">>, <<"set">>, <<"dns">>, <<"name=">> \o interface, <<"source=dhcp">>>>
CmdShowDns(adapter_name) ==
    <<<<"interface">>, <<"ip">>, <<"show">>, <<"dns">>, <<"name=">> \o adapter_name>>

\* A run of netsh as a thread saw it: the arguments, and how it ended.
Ran(args, out) ==
    [args |-> args, launched |-> out.launched, ended |-> out.ended,
     success |-> out.success, stderr |-> out.stderr]

\* How the command of a record ended, for a function that goes on to a
\* further command (set_dns_with_result reads the status and the stderr of
\* its first command, system.rs:68-73, and not its stdout).
OutcomeOf(cmd) ==
    [launched |-> cmd.launched, ended |-> cmd.ended, success |-> cmd.success,
     stdout |-> <<>>, stderr |-> cmd.stderr]

\* What a function of system.rs does in a thread: it panics or returns a
\* value, having run some netsh commands.
Panicked(cmds) == [panic |-> TRUE, value |-> <<>>, cmds |-> cmds]
Returned(value, cmds) == [panic |-> FALSE, value |-> <<value>>, cmds |-> cmds]

\* The message of a failed command: format!("...: {}", from_utf8_lossy(stderr)).
ErrorMessageNoStderr(prefix, stderr) == prefix
ErrorMessage(prefix, stderr) == prefix \o FromUtf8Lossy(stderr)

\* !output.status.success(), system.rs:68, 86, 110.
Failed(out) == ~out.success

\* set_dns_with_result, system.rs:57-98.
set_dns_with_result(interface, primary, secondary, out1, out2) ==
    LET c1 == Ran(CmdSetPrimary(interface, primary), out1)
        c2 == Ran(CmdAddSecondary(interface, secondary), out2)
    IN  IF ~out1.ended THEN Panicked(<<c1>>)
        ELSE IF Failed(out1)
        THEN Returned(ResError(ErrorMessage(<<"Error setting primary DNS ">> \o primary
                                                \o <<": ">>, out1.stderr)), <<c1>>)
        ELSE IF ~out2.ended THEN Panicked(<<c1, c2>>)
        ELSE IF Failed(out2)
        THEN Returned(ResError(ErrorMessage(<<"Error setting secondary DNS ">> \o secondary
                                                \o <<": ">>, out2.stderr)), <<c1, c2>>)
        ELSE Returned(ResSuccess(<<"DNS servers ">> \o primary \o <<" and ">> \o secondary
                                     \o <<" set successfully for '">> \o interface
                                     \o <<"'">>), <<c1, c2>>)

\* clear_dns_with_result, system.rs:101-122.
clear_dns_with_result(interface, out) ==
    LET c == Ran(CmdClear(interface), out)
    IN  IF ~out.ended THEN Panicked(<<c>>)
        ELSE IF ~Failed(out)
        THEN Returned(ResSuccess(<<"DNS reset to DHCP successfully for '">> \o interface
                                     \o <<"'">>), <<c>>)
        ELSE Returned(ResError(ErrorMessage(<<"Error resetting DNS for '">> \o interface
                                                \o <<"': ">>, out.stderr)), <<c>>)

\* A character outside ASCII is written by its code point: "U+" and the code
\* point in upper-case hexadecimal, four digits at least ("U+00E9", "U+1D7CE").
CharOf(n) ==
    LET digit == <<"0", "1", "2", "3", "4", "5", "6", "7", "8", "9",
                   "A", "B", "C", "D", "E", "F">>
        RECURSIVE hex(_, _)
        hex(m, width) ==
            IF width = 0 THEN "" ELSE hex(m \div 16, width - 1) \o digit[(m % 16) + 1]
    IN  "U+" \o hex(n, IF n < 65536 THEN 4 ELSE IF n < 1048576 THEN 5 ELSE 6)

\* The regular expression of system.rs:50 is Unicode-aware, the default of the
\* regex crate, whose classes follow the Unicode character database. The
\* ranges below are those of Unicode 16.0.
\* \d: the decimal digits (general category Nd), 760 characters, as ranges of
\* code points.
DecimalDigits ==
    LET ranges ==
            {<<\H0660, \H0669>>, <<\H06F0, \H06F9>>, <<\H07C0, \H07C9>>,
             <<\H0966, \H096F>>, <<\H09E6, \H09EF>>, <<\H0A66, \H0A6F>>,
             <<\H0AE6, \H0AEF>>, <<\H0B66, \H0B6F>>, <<\H0BE6, \H0BEF>>,
             <<\H0C66, \H0C6F>>, <<\H0CE6, \H0CEF>>, <<\H0D66, \H0D6F>>,
             <<\H0DE6, \H0DEF>>, <<\H0E50, \H0E59>>, <<\H0ED0, \H0ED9>>,
             <<\H0F20, \H0F29>>, <<\H1040, \H1049>>, <<\H1090, \H1099>>,
             <<\H17E0, \H17E9>>, <<\H1810, \H1819>>, <<\H1946, \H194F>>,
             <<\H19D0, \H19D9>>, <<\H1A80, \H1A89>>, <<\H1A90, \H1A99>>,
             <<\H1B50, \H1B59>>, <<\H1BB0, \H1BB9>>, <<\H1C40, \H1C49>>,
             <<\H1C50, \H1C59>>, <<\HA620, \HA629>>, <<\HA8D0, \HA8D9>>,
             <<\HA900, \HA909>>, <<\HA9D0, \HA9D9>>, <<\HA9F0, \HA9F9>>,
             <<\HAA50, \HAA59>>, <<\HABF0, \HABF9>>, <<\HFF10, \HFF19>>,
             <<\H104A0, \H104A9>>, <<\H10D30, \H10D39>>, <<\H10D40, \H10D49>>,
             <<\H11066, \H1106F>>, <<\H110F0, \H110F9>>, <<\H11136, \H1113F>>,
             <<\H111D0, \H111D9>>, <<\H112F0, \H112F9>>, <<\H11450, \H11459>>,
             <<\H114D0, \H114D9>>, <<\H11650, \H11659>>, <<\H116C0, \H116C9>>,
             <<\H116D0, \H116E3>>, <<\H11730, \H11739>>, <<\H118E0, \H118E9>>,
             <<\H11950, \H11959>>, <<\H11BF0, \H11BF9>>, <<\H11C50, \H11C59>>,
             <<\H11D50, \H11D59>>, <<\H11DA0, \H11DA9>>, <<\H11F50, \H11F59>>,
             <<\H16130, \H16139>>, <<\H16A60, \H16A69>>, <<\H16AC0, \H16AC9>>,
             <<\H16B50, \H16B59>>, <<\H16D70, \H16D79>>, <<\H1CCF0, \H1CCF9>>,
             <<\H1D7CE, \H1D7FF>>, <<\H1E140, \H1E149>>, <<\H1E2F0, \H1E2F9>>,
             <<\H1E4F0, \H1E4F9>>, <<\H1E5F1, \H1E5FA>>, <<\H1E950, \H1E959>>,
             <<\H1FBF0, \H1FBF9>>}
    IN  {"0", "1", "2", "3", "4", "5", "6", "7", "8", "9"}
            \cup {CharOf(n) : n \in UNION {range[1]..range[2] : range \in ranges}}

\* \w, which decides \b: the alphabetic characters, the marks, the decimal
\* digits, the connector punctuation and the two join controls, 144,667
\* characters, as ranges of code points.
WordChars ==
    LET ranges ==
            {<<\H00AA, \H00AA>>, <<\H00B5, \H00B5>>, <<\H00BA, \H00BA>>,
             <<\H00C0, \H00D6>>, <<\H00D8, \H00F6>>, <<\H00F8, \H02C1>>,
             <<\H02C6, \H02D1>>, <<\H02E0, \H02E4>>, <<\H02EC, \H02EC>>,
             <<\H02EE, \H02EE>>, <<\H0300, \H0374>>, <<\H0376, \H0377>>,
             <<\H037A, \H037D>>, <<\H037F, \H037F>>, <<\H0386, \H0386>>,
             <<\H0388, \H038A>>, <<\H038C, \H038C>>, <<\H038E, \H03A1>>,
             <<\H03A3, \H03F5>>, <<\H03F7, \H0481>>, <<\H0483, \H052F>>,
             <<\H0531, \H0556>>, <<\H0559, \H0559>>, <<\H0560, \H0588>>,
             <<\H0591, \H05BD>>, <<\H05BF, \H05BF>>, <<\H05C1, \H05C2>>,
             <<\H05C4, \H05C5>>, <<\H05C7, \H05C7>>, <<\H05D0, \H05EA>>,
             <<\H05EF, \H05F2>>, <<\H0610, \H061A>>, <<\H0620, \H0669>>,
             <<\H066E, \H06D3>>, <<\H06D5, \H06DC>>, <<\H06DF, \H06E8>>,
             <<\H06EA, \H06FC>>, <<\H06FF, \H06FF>>, <<\H0710, \H074A>>,
             <<\H074D, \H07B1>>, <<\H07C0, \H07F5>>, <<\H07FA, \H07FA>>,
             <<\H07FD, \H07FD>>, <<\H0800, \H082D>>, <<\H0840, \H085B>>,
             <<\H0860, \H086A>>, <<\H0870, \H0887>>, <<\H0889, \H088E>>,
             <<\H0897, \H08E1>>, <<\H08E3, \H0963>>, <<\H0966, \H096F>>,
             <<\H0971, \H0983>>, <<\H0985, \H098C>>, <<\H098F, \H0990>>,
             <<\H0993, \H09A8>>, <<\H09AA, \H09B0>>, <<\H09B2, \H09B2>>,
             <<\H09B6, \H09B9>>, <<\H09BC, \H09C4>>, <<\H09C7, \H09C8>>,
             <<\H09CB, \H09CE>>, <<\H09D7, \H09D7>>, <<\H09DC, \H09DD>>,
             <<\H09DF, \H09E3>>, <<\H09E6, \H09F1>>, <<\H09FC, \H09FC>>,
             <<\H09FE, \H09FE>>, <<\H0A01, \H0A03>>, <<\H0A05, \H0A0A>>,
             <<\H0A0F, \H0A10>>, <<\H0A13, \H0A28>>, <<\H0A2A, \H0A30>>,
             <<\H0A32, \H0A33>>, <<\H0A35, \H0A36>>, <<\H0A38, \H0A39>>,
             <<\H0A3C, \H0A3C>>, <<\H0A3E, \H0A42>>, <<\H0A47, \H0A48>>,
             <<\H0A4B, \H0A4D>>, <<\H0A51, \H0A51>>, <<\H0A59, \H0A5C>>,
             <<\H0A5E, \H0A5E>>, <<\H0A66, \H0A75>>, <<\H0A81, \H0A83>>,
             <<\H0A85, \H0A8D>>, <<\H0A8F, \H0A91>>, <<\H0A93, \H0AA8>>,
             <<\H0AAA, \H0AB0>>, <<\H0AB2, \H0AB3>>, <<\H0AB5, \H0AB9>>,
             <<\H0ABC, \H0AC5>>, <<\H0AC7, \H0AC9>>, <<\H0ACB, \H0ACD>>,
             <<\H0AD0, \H0AD0>>, <<\H0AE0, \H0AE3>>, <<\H0AE6, \H0AEF>>,
             <<\H0AF9, \H0AFF>>, <<\H0B01, \H0B03>>, <<\H0B05, \H0B0C>>,
             <<\H0B0F, \H0B10>>, <<\H0B13, \H0B28>>, <<\H0B2A, \H0B30>>,
             <<\H0B32, \H0B33>>, <<\H0B35, \H0B39>>, <<\H0B3C, \H0B44>>,
             <<\H0B47, \H0B48>>, <<\H0B4B, \H0B4D>>, <<\H0B55, \H0B57>>,
             <<\H0B5C, \H0B5D>>, <<\H0B5F, \H0B63>>, <<\H0B66, \H0B6F>>,
             <<\H0B71, \H0B71>>, <<\H0B82, \H0B83>>, <<\H0B85, \H0B8A>>,
             <<\H0B8E, \H0B90>>, <<\H0B92, \H0B95>>, <<\H0B99, \H0B9A>>,
             <<\H0B9C, \H0B9C>>, <<\H0B9E, \H0B9F>>, <<\H0BA3, \H0BA4>>,
             <<\H0BA8, \H0BAA>>, <<\H0BAE, \H0BB9>>, <<\H0BBE, \H0BC2>>,
             <<\H0BC6, \H0BC8>>, <<\H0BCA, \H0BCD>>, <<\H0BD0, \H0BD0>>,
             <<\H0BD7, \H0BD7>>, <<\H0BE6, \H0BEF>>, <<\H0C00, \H0C0C>>,
             <<\H0C0E, \H0C10>>, <<\H0C12, \H0C28>>, <<\H0C2A, \H0C39>>,
             <<\H0C3C, \H0C44>>, <<\H0C46, \H0C48>>, <<\H0C4A, \H0C4D>>,
             <<\H0C55, \H0C56>>, <<\H0C58, \H0C5A>>, <<\H0C5D, \H0C5D>>,
             <<\H0C60, \H0C63>>, <<\H0C66, \H0C6F>>, <<\H0C80, \H0C83>>,
             <<\H0C85, \H0C8C>>, <<\H0C8E, \H0C90>>, <<\H0C92, \H0CA8>>,
             <<\H0CAA, \H0CB3>>, <<\H0CB5, \H0CB9>>, <<\H0CBC, \H0CC4>>,
             <<\H0CC6, \H0CC8>>, <<\H0CCA, \H0CCD>>, <<\H0CD5, \H0CD6>>,
             <<\H0CDD, \H0CDE>>, <<\H0CE0, \H0CE3>>, <<\H0CE6, \H0CEF>>,
             <<\H0CF1, \H0CF3>>, <<\H0D00, \H0D0C>>, <<\H0D0E, \H0D10>>,
             <<\H0D12, \H0D44>>, <<\H0D46, \H0D48>>, <<\H0D4A, \H0D4E>>,
             <<\H0D54, \H0D57>>, <<\H0D5F, \H0D63>>, <<\H0D66, \H0D6F>>,
             <<\H0D7A, \H0D7F>>, <<\H0D81, \H0D83>>, <<\H0D85, \H0D96>>,
             <<\H0D9A, \H0DB1>>, <<\H0DB3, \H0DBB>>, <<\H0DBD, \H0DBD>>,
             <<\H0DC0, \H0DC6>>, <<\H0DCA, \H0DCA>>, <<\H0DCF, \H0DD4>>,
             <<\H0DD6, \H0DD6>>, <<\H0DD8, \H0DDF>>, <<\H0DE6, \H0DEF>>,
             <<\H0DF2, \H0DF3>>, <<\H0E01, \H0E3A>>, <<\H0E40, \H0E4E>>,
             <<\H0E50, \H0E59>>, <<\H0E81, \H0E82>>, <<\H0E84, \H0E84>>,
             <<\H0E86, \H0E8A>>, <<\H0E8C, \H0EA3>>, <<\H0EA5, \H0EA5>>,
             <<\H0EA7, \H0EBD>>, <<\H0EC0, \H0EC4>>, <<\H0EC6, \H0EC6>>,
             <<\H0EC8, \H0ECE>>, <<\H0ED0, \H0ED9>>, <<\H0EDC, \H0EDF>>,
             <<\H0F00, \H0F00>>, <<\H0F18, \H0F19>>, <<\H0F20, \H0F29>>,
             <<\H0F35, \H0F35>>, <<\H0F37, \H0F37>>, <<\H0F39, \H0F39>>,
             <<\H0F3E, \H0F47>>, <<\H0F49, \H0F6C>>, <<\H0F71, \H0F84>>,
             <<\H0F86, \H0F97>>, <<\H0F99, \H0FBC>>, <<\H0FC6, \H0FC6>>,
             <<\H1000, \H1049>>, <<\H1050, \H109D>>, <<\H10A0, \H10C5>>,
             <<\H10C7, \H10C7>>, <<\H10CD, \H10CD>>, <<\H10D0, \H10FA>>,
             <<\H10FC, \H1248>>, <<\H124A, \H124D>>, <<\H1250, \H1256>>,
             <<\H1258, \H1258>>, <<\H125A, \H125D>>, <<\H1260, \H1288>>,
             <<\H128A, \H128D>>, <<\H1290, \H12B0>>, <<\H12B2, \H12B5>>,
             <<\H12B8, \H12BE>>, <<\H12C0, \H12C0>>, <<\H12C2, \H12C5>>,
             <<\H12C8, \H12D6>>, <<\H12D8, \H1310>>, <<\H1312, \H1315>>,
             <<\H1318, \H135A>>, <<\H135D, \H135F>>, <<\H1380, \H138F>>,
             <<\H13A0, \H13F5>>, <<\H13F8, \H13FD>>, <<\H1401, \H166C>>,
             <<\H166F, \H167F>>, <<\H1681, \H169A>>, <<\H16A0, \H16EA>>,
             <<\H16EE, \H16F8>>, <<\H1700, \H1715>>, <<\H171F, \H1734>>,
             <<\H1740, \H1753>>, <<\H1760, \H176C>>, <<\H176E, \H1770>>,
             <<\H1772, \H1773>>, <<\H1780, \H17D3>>, <<\H17D7, \H17D7>>,
             <<\H17DC, \H17DD>>, <<\H17E0, \H17E9>>, <<\H180B, \H180D>>,
             <<\H180F, \H1819>>, <<\H1820, \H1878>>, <<\H1880, \H18AA>>,
             <<\H18B0, \H18F5>>, <<\H1900, \H191E>>, <<\H1920, \H192B>>,
             <<\H1930, \H193B>>, <<\H1946, \H196D>>, <<\H1970, \H1974>>,
             <<\H1980, \H19AB>>, <<\H19B0, \H19C9>>, <<\H19D0, \H19D9>>,
             <<\H1A00, \H1A1B>>, <<\H1A20, \H1A5E>>, <<\H1A60, \H1A7C>>,
             <<\H1A7F, \H1A89>>, <<\H1A90, \H1A99>>, <<\H1AA7, \H1AA7>>,
             <<\H1AB0, \H1ACE>>, <<\H1B00, \H1B4C>>, <<\H1B50, \H1B59>>,
             <<\H1B6B, \H1B73>>, <<\H1B80, \H1BF3>>, <<\H1C00, \H1C37>>,
             <<\H1C40, \H1C49>>, <<\H1C4D, \H1C7D>>, <<\H1C80, \H1C8A>>,
             <<\H1C90, \H1CBA>>, <<\H1CBD, \H1CBF>>, <<\H1CD0, \H1CD2>>,
             <<\H1CD4, \H1CFA>>, <<\H1D00, \H1F15>>, <<\H1F18, \H1F1D>>,
             <<\H1F20, \H1F45>>, <<\H1F48, \H1F4D>>, <<\H1F50, \H1F57>>,
             <<\H1F59, \H1F59>>, <<\H1F5B, \H1F5B>>, <<\H1F5D, \H1F5D>>,
             <<\H1F5F, \H1F7D>>, <<\H1F80, \H1FB4>>, <<\H1FB6, \H1FBC>>,
             <<\H1FBE, \H1FBE>>, <<\H1FC2, \H1FC4>>, <<\H1FC6, \H1FCC>>,
             <<\H1FD0, \H1FD3>>, <<\H1FD6, \H1FDB>>, <<\H1FE0, \H1FEC>>,
             <<\H1FF2, \H1FF4>>, <<\H1FF6, \H1FFC>>, <<\H200C, \H200D>>,
             <<\H203F, \H2040>>, <<\H2054, \H2054>>, <<\H2071, \H2071>>,
             <<\H207F, \H207F>>, <<\H2090, \H209C>>, <<\H20D0, \H20F0>>,
             <<\H2102, \H2102>>, <<\H2107, \H2107>>, <<\H210A, \H2113>>,
             <<\H2115, \H2115>>, <<\H2119, \H211D>>, <<\H2124, \H2124>>,
             <<\H2126, \H2126>>, <<\H2128, \H2128>>, <<\H212A, \H212D>>,
             <<\H212F, \H2139>>, <<\H213C, \H213F>>, <<\H2145, \H2149>>,
             <<\H214E, \H214E>>, <<\H2160, \H2188>>, <<\H24B6, \H24E9>>,
             <<\H2C00, \H2CE4>>, <<\H2CEB, \H2CF3>>, <<\H2D00, \H2D25>>,
             <<\H2D27, \H2D27>>, <<\H2D2D, \H2D2D>>, <<\H2D30, \H2D67>>,
             <<\H2D6F, \H2D6F>>, <<\H2D7F, \H2D96>>, <<\H2DA0, \H2DA6>>,
             <<\H2DA8, \H2DAE>>, <<\H2DB0, \H2DB6>>, <<\H2DB8, \H2DBE>>,
             <<\H2DC0, \H2DC6>>, <<\H2DC8, \H2DCE>>, <<\H2DD0, \H2DD6>>,
             <<\H2DD8, \H2DDE>>, <<\H2DE0, \H2DFF>>, <<\H2E2F, \H2E2F>>,
             <<\H3005, \H3007>>, <<\H3021, \H302F>>, <<\H3031, \H3035>>,
             <<\H3038, \H303C>>, <<\H3041, \H3096>>, <<\H3099, \H309A>>,
             <<\H309D, \H309F>>, <<\H30A1, \H30FA>>, <<\H30FC, \H30FF>>,
             <<\H3105, \H312F>>, <<\H3131, \H318E>>, <<\H31A0, \H31BF>>,
             <<\H31F0, \H31FF>>, <<\H3400, \H4DBF>>, <<\H4E00, \HA48C>>,
             <<\HA4D0, \HA4FD>>, <<\HA500, \HA60C>>, <<\HA610, \HA62B>>,
             <<\HA640, \HA672>>, <<\HA674, \HA67D>>, <<\HA67F, \HA6F1>>,
             <<\HA717, \HA71F>>, <<\HA722, \HA788>>, <<\HA78B, \HA7CD>>,
             <<\HA7D0, \HA7D1>>, <<\HA7D3, \HA7D3>>, <<\HA7D5, \HA7DC>>,
             <<\HA7F2, \HA827>>, <<\HA82C, \HA82C>>, <<\HA840, \HA873>>,
             <<\HA880, \HA8C5>>, <<\HA8D0, \HA8D9>>, <<\HA8E0, \HA8F7>>,
             <<\HA8FB, \HA8FB>>, <<\HA8FD, \HA92D>>, <<\HA930, \HA953>>,
             <<\HA960, \HA97C>>, <<\HA980, \HA9C0>>, <<\HA9CF, \HA9D9>>,
             <<\HA9E0, \HA9FE>>, <<\HAA00, \HAA36>>, <<\HAA40, \HAA4D>>,
             <<\HAA50, \HAA59>>, <<\HAA60, \HAA76>>, <<\HAA7A, \HAAC2>>,
             <<\HAADB, \HAADD>>, <<\HAAE0, \HAAEF>>, <<\HAAF2, \HAAF6>>,
             <<\HAB01, \HAB06>>, <<\HAB09, \HAB0E>>, <<\HAB11, \HAB16>>,
             <<\HAB20, \HAB26>>, <<\HAB28, \HAB2E>>, <<\HAB30, \HAB5A>>,
             <<\HAB5C, \HAB69>>, <<\HAB70, \HABEA>>, <<\HABEC, \HABED>>,
             <<\HABF0, \HABF9>>, <<\HAC00, \HD7A3>>, <<\HD7B0, \HD7C6>>,
             <<\HD7CB, \HD7FB>>, <<\HF900, \HFA6D>>, <<\HFA70, \HFAD9>>,
             <<\HFB00, \HFB06>>, <<\HFB13, \HFB17>>, <<\HFB1D, \HFB28>>,
             <<\HFB2A, \HFB36>>, <<\HFB38, \HFB3C>>, <<\HFB3E, \HFB3E>>,
             <<\HFB40, \HFB41>>, <<\HFB43, \HFB44>>, <<\HFB46, \HFBB1>>,
             <<\HFBD3, \HFD3D>>, <<\HFD50, \HFD8F>>, <<\HFD92, \HFDC7>>,
             <<\HFDF0, \HFDFB>>, <<\HFE00, \HFE0F>>, <<\HFE20, \HFE2F>>,
             <<\HFE33, \HFE34>>, <<\HFE4D, \HFE4F>>, <<\HFE70, \HFE74>>,
             <<\HFE76, \HFEFC>>, <<\HFF10, \HFF19>>, <<\HFF21, \HFF3A>>,
             <<\HFF3F, \HFF3F>>, <<\HFF41, \HFF5A>>, <<\HFF66, \HFFBE>>,
             <<\HFFC2, \HFFC7>>, <<\HFFCA, \HFFCF>>, <<\HFFD2, \HFFD7>>,
             <<\HFFDA, \HFFDC>>, <<\H10000, \H1000B>>, <<\H1000D, \H10026>>,
             <<\H10028, \H1003A>>, <<\H1003C, \H1003D>>, <<\H1003F, \H1004D>>,
             <<\H10050, \H1005D>>, <<\H10080, \H100FA>>, <<\H10140, \H10174>>,
             <<\H101FD, \H101FD>>, <<\H10280, \H1029C>>, <<\H102A0, \H102D0>>,
             <<\H102E0, \H102E0>>, <<\H10300, \H1031F>>, <<\H1032D, \H1034A>>,
             <<\H10350, \H1037A>>, <<\H10380, \H1039D>>, <<\H103A0, \H103C3>>,
             <<\H103C8, \H103CF>>, <<\H103D1, \H103D5>>, <<\H10400, \H1049D>>,
             <<\H104A0, \H104A9>>, <<\H104B0, \H104D3>>, <<\H104D8, \H104FB>>,
             <<\H10500, \H10527>>, <<\H10530, \H10563>>, <<\H10570, \H1057A>>,
             <<\H1057C, \H1058A>>, <<\H1058C, \H10592>>, <<\H10594, \H10595>>,
             <<\H10597, \H105A1>>, <<\H105A3, \H105B1>>, <<\H105B3, \H105B9>>,
             <<\H105BB, \H105BC>>, <<\H105C0, \H105F3>>, <<\H10600, \H10736>>,
             <<\H10740, \H10755>>, <<\H10760, \H10767>>, <<\H10780, \H10785>>,
             <<\H10787, \H107B0>>, <<\H107B2, \H107BA>>, <<\H10800, \H10805>>,
             <<\H10808, \H10808>>, <<\H1080A, \H10835>>, <<\H10837, \H10838>>,
             <<\H1083C, \H1083C>>, <<\H1083F, \H10855>>, <<\H10860, \H10876>>,
             <<\H10880, \H1089E>>, <<\H108E0, \H108F2>>, <<\H108F4, \H108F5>>,
             <<\H10900, \H10915>>, <<\H10920, \H10939>>, <<\H10980, \H109B7>>,
             <<\H109BE, \H109BF>>, <<\H10A00, \H10A03>>, <<\H10A05, \H10A06>>,
             <<\H10A0C, \H10A13>>, <<\H10A15, \H10A17>>, <<\H10A19, \H10A35>>,
             <<\H10A38, \H10A3A>>, <<\H10A3F, \H10A3F>>, <<\H10A60, \H10A7C>>,
             <<\H10A80, \H10A9C>>, <<\H10AC0, \H10AC7>>, <<\H10AC9, \H10AE6>>,
             <<\H10B00, \H10B35>>, <<\H10B40, \H10B55>>, <<\H10B60, \H10B72>>,
             <<\H10B80, \H10B91>>, <<\H10C00, \H10C48>>, <<\H10C80, \H10CB2>>,
             <<\H10CC0, \H10CF2>>, <<\H10D00, \H10D27>>, <<\H10D30, \H10D39>>,
             <<\H10D40, \H10D65>>, <<\H10D69, \H10D6D>>, <<\H10D6F, \H10D85>>,
             <<\H10E80, \H10EA9>>, <<\H10EAB, \H10EAC>>, <<\H10EB0, \H10EB1>>,
             <<\H10EC2, \H10EC4>>, <<\H10EFC, \H10F1C>>, <<\H10F27, \H10F27>>,
             <<\H10F30, \H10F50>>, <<\H10F70, \H10F85>>, <<\H10FB0, \H10FC4>>,
             <<\H10FE0, \H10FF6>>, <<\H11000, \H11046>>, <<\H11066, \H11075>>,
             <<\H1107F, \H110BA>>, <<\H110C2, \H110C2>>, <<\H110D0, \H110E8>>,
             <<\H110F0, \H110F9>>, <<\H11100, \H11134>>, <<\H11136, \H1113F>>,
             <<\H11144, \H11147>>, <<\H11150, \H11173>>, <<\H11176, \H11176>>,
             <<\H11180, \H111C4>>, <<\H111C9, \H111CC>>, <<\H111CE, \H111DA>>,
             <<\H111DC, \H111DC>>, <<\H11200, \H11211>>, <<\H11213, \H11237>>,
             <<\H1123E, \H11241>>, <<\H11280, \H11286>>, <<\H11288, \H11288>>,
             <<\H1128A, \H1128D>>, <<\H1128F, \H1129D>>, <<\H1129F, \H112A8>>,
             <<\H112B0, \H112EA>>, <<\H112F0, \H112F9>>, <<\H11300, \H11303>>,
             <<\H11305, \H1130C>>, <<\H1130F, \H11310>>, <<\H11313, \H11328>>,
             <<\H1132A, \H11330>>, <<\H11332, \H11333>>, <<\H11335, \H11339>>,
             <<\H1133B, \H11344>>, <<\H11347, \H11348>>, <<\H1134B, \H1134D>>,
             <<\H11350, \H11350>>, <<\H11357, \H11357>>, <<\H1135D, \H11363>>,
             <<\H11366, \H1136C>>, <<\H11370, \H11374>>, <<\H11380, \H11389>>,
             <<\H1138B, \H1138B>>, <<\H1138E, \H1138E>>, <<\H11390, \H113B5>>,
             <<\H113B7, \H113C0>>, <<\H113C2, \H113C2>>, <<\H113C5, \H113C5>>,
             <<\H113C7, \H113CA>>, <<\H113CC, \H113D3>>, <<\H113E1, \H113E2>>,
             <<\H11400, \H1144A>>, <<\H11450, \H11459>>, <<\H1145E, \H11461>>,
             <<\H11480, \H114C5>>, <<\H114C7, \H114C7>>, <<\H114D0, \H114D9>>,
             <<\H11580, \H115B5>>, <<\H115B8, \H115C0>>, <<\H115D8, \H115DD>>,
             <<\H11600, \H11640>>, <<\H11644, \H11644>>, <<\H11650, \H11659>>,
             <<\H11680, \H116B8>>, <<\H116C0, \H116C9>>, <<\H116D0, \H116E3>>,
             <<\H11700, \H1171A>>, <<\H1171D, \H1172B>>, <<\H11730, \H11739>>,
             <<\H11740, \H11746>>, <<\H11800, \H1183A>>, <<\H118A0, \H118E9>>,
             <<\H118FF, \H11906>>, <<\H11909, \H11909>>, <<\H1190C, \H11913>>,
             <<\H11915, \H11916>>, <<\H11918, \H11935>>, <<\H11937, \H11938>>,
             <<\H1193B, \H11943>>, <<\H11950, \H11959>>, <<\H119A0, \H119A7>>,
             <<\H119AA, \H119D7>>, <<\H119DA, \H119E1>>, <<\H119E3, \H119E4>>,
             <<\H11A00, \H11A3E>>, <<\H11A47, \H11A47>>, <<\H11A50, \H11A99>>,
             <<\H11A9D, \H11A9D>>, <<\H11AB0, \H11AF8>>, <<\H11BC0, \H11BE0>>,
             <<\H11BF0, \H11BF9>>, <<\H11C00, \H11C08>>, <<\H11C0A, \H11C36>>,
             <<\H11C38, \H11C40>>, <<\H11C50, \H11C59>>, <<\H11C72, \H11C8F>>,
             <<\H11C92, \H11CA7>>, <<\H11CA9, \H11CB6>>, <<\H11D00, \H11D06>>,
             <<\H11D08, \H11D09>>, <<\H11D0B, \H11D36>>, <<\H11D3A, \H11D3A>>,
             <<\H11D3C, \H11D3D>>, <<\H11D3F, \H11D47>>, <<\H11D50, \H11D59>>,
             <<\H11D60, \H11D65>>, <<\H11D67, \H11D68>>, <<\H11D6A, \H11D8E>>,
             <<\H11D90, \H11D91>>, <<\H11D93, \H11D98>>, <<\H11DA0, \H11DA9>>,
             <<\H11EE0, \H11EF6>>, <<\H11F00, \H11F10>>, <<\H11F12, \H11F3A>>,
             <<\H11F3E, \H11F42>>, <<\H11F50, \H11F5A>>, <<\H11FB0, \H11FB0>>,
             <<\H12000, \H12399>>, <<\H12400, \H1246E>>, <<\H12480, \H12543>>,
             <<\H12F90, \H12FF0>>, <<\H13000, \H1342F>>, <<\H13440, \H13455>>,
             <<\H13460, \H143FA>>, <<\H14400, \H14646>>, <<\H16100, \H16139>>,
             <<\H16800, \H16A38>>, <<\H16A40, \H16A5E>>, <<\H16A60, \H16A69>>,
             <<\H16A70, \H16ABE>>, <<\H16AC0, \H16AC9>>, <<\H16AD0, \H16AED>>,
             <<\H16AF0, \H16AF4>>, <<\H16B00, \H16B36>>, <<\H16B40, \H16B43>>,
             <<\H16B50, \H16B59>>, <<\H16B63, \H16B77>>, <<\H16B7D, \H16B8F>>,
             <<\H16D40, \H16D6C>>, <<\H16D70, \H16D79>>, <<\H16E40, \H16E7F>>,
             <<\H16F00, \H16F4A>>, <<\H16F4F, \H16F87>>, <<\H16F8F, \H16F9F>>,
             <<\H16FE0, \H16FE1>>, <<\H16FE3, \H16FE4>>, <<\H16FF0, \H16FF1>>,
             <<\H17000, \H187F7>>, <<\H18800, \H18CD5>>, <<\H18CFF, \H18D08>>,
             <<\H1AFF0, \H1AFF3>>, <<\H1AFF5, \H1AFFB>>, <<\H1AFFD, \H1AFFE>>,
             <<\H1B000, \H1B122>>, <<\H1B132, \H1B132>>, <<\H1B150, \H1B152>>,
             <<\H1B155, \H1B155>>, <<\H1B164, \H1B167>>, <<\H1B170, \H1B2FB>>,
             <<\H1BC00, \H1BC6A>>, <<\H1BC70, \H1BC7C>>, <<\H1BC80, \H1BC88>>,
             <<\H1BC90, \H1BC99>>, <<\H1BC9D, \H1BC9E>>, <<\H1CCF0, \H1CCF9>>,
             <<\H1CF00, \H1CF2D>>, <<\H1CF30, \H1CF46>>, <<\H1D165, \H1D169>>,
             <<\H1D16D, \H1D172>>, <<\H1D17B, \H1D182>>, <<\H1D185, \H1D18B>>,
             <<\H1D1AA, \H1D1AD>>, <<\H1D242, \H1D244>>, <<\H1D400, \H1D454>>,
             <<\H1D456, \H1D49C>>, <<\H1D49E, \H1D49F>>, <<\H1D4A2, \H1D4A2>>,
             <<\H1D4A5, \H1D4A6>>, <<\H1D4A9, \H1D4AC>>, <<\H1D4AE, \H1D4B9>>,
             <<\H1D4BB, \H1D4BB>>, <<\H1D4BD, \H1D4C3>>, <<\H1D4C5, \H1D505>>,
             <<\H1D507, \H1D50A>>, <<\H1D50D, \H1D514>>, <<\H1D516, \H1D51C>>,
             <<\H1D51E, \H1D539>>, <<\H1D53B, \H1D53E>>, <<\H1D540, \H1D544>>,
             <<\H1D546, \H1D546>>, <<\H1D54A, \H1D550>>, <<\H1D552, \H1D6A5>>,
             <<\H1D6A8, \H1D6C0>>, <<\H1D6C2, \H1D6DA>>, <<\H1D6DC, \H1D6FA>>,
             <<\H1D6FC, \H1D714>>, <<\H1D716, \H1D734>>, <<\H1D736, \H1D74E>>,
             <<\H1D750, \H1D76E>>, <<\H1D770, \H1D788>>, <<\H1D78A, \H1D7A8>>,
             <<\H1D7AA, \H1D7C2>>, <<\H1D7C4, \H1D7CB>>, <<\H1D7CE, \H1D7FF>>,
             <<\H1DA00, \H1DA36>>, <<\H1DA3B, \H1DA6C>>, <<\H1DA75, \H1DA75>>,
             <<\H1DA84, \H1DA84>>, <<\H1DA9B, \H1DA9F>>, <<\H1DAA1, \H1DAAF>>,
             <<\H1DF00, \H1DF1E>>, <<\H1DF25, \H1DF2A>>, <<\H1E000, \H1E006>>,
             <<\H1E008, \H1E018>>, <<\H1E01B, \H1E021>>, <<\H1E023, \H1E024>>,
             <<\H1E026, \H1E02A>>, <<\H1E030, \H1E06D>>, <<\H1E08F, \H1E08F>>,
             <<\H1E100, \H1E12C>>, <<\H1E130, \H1E13D>>, <<\H1E140, \H1E149>>,
             <<\H1E14E, \H1E14E>>, <<\H1E290, \H1E2AE>>, <<\H1E2C0, \H1E2F9>>,
             <<\H1E4D0, \H1E4F9>>, <<\H1E5D0, \H1E5FA>>, <<\H1E7E0, \H1E7E6>>,
             <<\H1E7E8, \H1E7EB>>, <<\H1E7ED, \H1E7EE>>, <<\H1E7F0, \H1E7FE>>,
             <<\H1E800, \H1E8C4>>, <<\H1E8D0, \H1E8D6>>, <<\H1E900, \H1E94B>>,
             <<\H1E950, \H1E959>>, <<\H1EE00, \H1EE03>>, <<\H1EE05, \H1EE1F>>,
             <<\H1EE21, \H1EE22>>, <<\H1EE24, \H1EE24>>, <<\H1EE27, \H1EE27>>,
             <<\H1EE29, \H1EE32>>, <<\H1EE34, \H1EE37>>, <<\H1EE39, \H1EE39>>,
             <<\H1EE3B, \H1EE3B>>, <<\H1EE42, \H1EE42>>, <<\H1EE47, \H1EE47>>,
             <<\H1EE49, \H1EE49>>, <<\H1EE4B, \H1EE4B>>, <<\H1EE4D, \H1EE4F>>,
             <<\H1EE51, \H1EE52>>, <<\H1EE54, \H1EE54>>, <<\H1EE57, \H1EE57>>,
             <<\H1EE59, \H1EE59>>, <<\H1EE5B, \H1EE5B>>, <<\H1EE5D, \H1EE5D>>,
             <<\H1EE5F, \H1EE5F>>, <<\H1EE61, \H1EE62>>, <<\H1EE64, \H1EE64>>,
             <<\H1EE67, \H1EE6A>>, <<\H1EE6C, \H1EE72>>, <<\H1EE74, \H1EE77>>,
             <<\H1EE79, \H1EE7C>>, <<\H1EE7E, \H1EE7E>>, <<\H1EE80, \H1EE89>>,
             <<\H1EE8B, \H1EE9B>>, <<\H1EEA1, \H1EEA3>>, <<\H1EEA5, \H1EEA9>>,
             <<\H1EEAB, \H1EEBB>>, <<\H1F130, \H1F149>>, <<\H1F150, \H1F169>>,
             <<\H1F170, \H1F189>>, <<\H1FBF0, \H1FBF9>>, <<\H20000, \H2A6DF>>,
             <<\H2A700, \H2B739>>, <<\H2B740, \H2B81D>>, <<\H2B820, \H2CEA1>>,
             <<\H2CEB0, \H2EBE0>>, <<\H2EBF0, \H2EE5D>>, <<\H2F800, \H2FA1D>>,
             <<\H30000, \H3134A>>, <<\H31350, \H323AF>>, <<\HE0100, \HE01EF>>}
    IN  {"_",
         "0", "1", "2", "3", "4", "5", "6", "7", "8", "9",
         "a", "b", "c", "d", "e", "f", "g", "h", "i", "j", "k", "l", "m",
         "n", "o", "p", "q", "r", "s", "t", "u", "v", "w", "x", "y", "z",
         "A", "B", "C", "D", "E", "F", "G", "H", "I", "J", "K", "L", "M",
         "N", "O", "P", "Q", "R", "S", "T", "U", "V", "W", "X", "Y", "Z"}
            \cup {CharOf(n) : n \in UNION {range[1]..range[2] : range \in ranges}}

\* The end of the run of digits that starts at text[i].
RECURSIVE DigitRunEnd(_, _)
DigitRunEnd(text, i) ==
    IF i < Len(text) /\ text[i + 1] \in DecimalDigits THEN DigitRunEnd(text, i + 1) ELSE i

\* \d{1,3}(?:\.\d{1,3}){n-1} at text[i]: the index of its last character, or
\* 0 when the text has no such groups there. A group is a whole run of
\* digits: what follows a group is a dot or the closing \b, never a digit.
RECURSIVE GroupsEnd(_, _, _)
GroupsEnd(text, i, n) ==
    IF i > Len(text) \/ text[i] \notin DecimalDigits THEN 0
    ELSE LET e == DigitRunEnd(text, i)
         IN  IF e - i + 1 > 3 THEN 0
             ELSE IF n = 1 THEN e
             ELSE IF e < Len(text) /\ text[e + 1] = "." THEN GroupsEnd(text, e + 2, n - 1)
             ELSE 0

\* The regular expression of get_current_dns (system.rs:50),
\* \b\d{1,3}(?:\.\d{1,3}){3}\b, tried at text[i]: the index of the match's
\* last character, or 0. The match opens and closes at a word boundary.
MatchEnd(text, i) ==
    IF i > 1 /\ text[i - 1] \in WordChars THEN 0
    ELSE LET e == GroupsEnd(text, i, 4)
         IN  IF e = 0 THEN 0
             ELSE IF e < Len(text) /\ text[e + 1] \in WordChars THEN 0
             ELSE e

\* re.find_iter(text) from text[from] on, system.rs:51-53: the matches from
\* left to right, each search starting where the match before it ended.
RECURSIVE find_iter(_, _)
find_iter(text, from) ==
    IF from > Len(text) THEN <<>>
    ELSE LET e == MatchEnd(text, from)
         IN  IF e = 0 THEN find_iter(text, from + 1)
             ELSE <<SubSeq(text, from, e)>> \o find_iter(text, e + 1)

\* get_current_dns, system.rs:40-54: every match of the regular expression
\* in the text of netsh's output.
get_current_dns(adapter_name, out) ==
    LET c == Ran(CmdShowDns(adapter_name), out)
    IN  IF ~out.ended THEN Panicked(<<c>>)
        ELSE Returned(find_iter(FromUtf8Lossy(out.stdout), 1), <<c>>)

\* The outputs of "show dns": nothing configured, or two static servers the
\* output prints with punctuation around them, the second with an
\* Extended Arabic-Indic digit (U+06F1), beside an address that follows a
\* Greek letter (U+03B1) and so is none.
DnsOutcomes ==
    {NetshFailed, NetshLost,
     NetshExit(TRUE, <<"d", "h", "c", "p", "\n">>, <<>>),
     NetshExit(TRUE, <<"D", "N", "S", ":", "9", ".", "9", ".", "9", ".",
                       "9", ",", "U+03B1", "8", ".", "8", ".", "8", ".",
                       "8", "\n", "+", "U+06F1", ".", "1", ".", "1", ".", "1",
                       ".", "5", "\n">>,
               <<>>)}

\* str::lines: the text between line feeds, a carriage return before a line
\* feed dropped, no empty line after a final line feed.
RECURSIVE Lines(_)
Lines(text) ==
    IF text = <<>> THEN <<>>
    ELSE LET ends == {i \in DOMAIN text : text[i] = "\n"}
         IN  IF ends = {} THEN <<text>>
             ELSE LET k == CHOOSE i \in ends : \A j \in ends : i <= j
                      line == SubSeq(text, 1, k - 1)
                  IN  <<IF line # <<>> /\ line[Len(line)] = "\r"
                        THEN SubSeq(line, 1, Len(line) - 1) ELSE line>>
                          \o Lines(SubSeq(text, k + 1, Len(text)))

\* line.split_whitespace().last(): <<token>> or <<>>.
SplitWhitespaceLast(s) ==
    LET ends == {i \in DOMAIN s : s[i] \notin WhiteSpace}
    IN  IF ends = {} THEN <<>>
        ELSE LET b == CHOOSE i \in ends : \A j \in ends : i >= j
                 starts == {i \in 1..b : \A j \in i..b : s[j] \notin WhiteSpace}
                 a == CHOOSE i \in starts : \A j \in starts : i <= j
             IN  <<SubSeq(s, a, b)>>

\* get_active_adapter, system.rs:26-37, on the text of netsh's output: the
\* last word of the first line that contains both "Connected" and
\* "Dedicated".
get_active_adapter(stdout) ==
    LET lines == Lines(FromUtf8Lossy(stdout))
        hits == {i \in DOMAIN lines : /\ Contains(lines[i], <<"C", "o", "n", "n", "e", "c", "t", "e", "d">>)
                                      /\ Contains(lines[i], <<"D", "e", "d", "i", "c", "a", "t", "e", "d">>)}
    IN  IF hits = {} THEN <<>>
        ELSE SplitWhitespaceLast(lines[CHOOSE i \in hits : \A j \in hits : i <= j])

\* The outputs of "show interface": a disconnected Wi-Fi alone, or that
\* line and a connected Ethernet after it.
AdapterOutcomes ==
    {NetshFailed, NetshLost,
     NetshExit(TRUE, <<"E", "n", "a", "b", "l", "e", "d", " ", "D", "i",
                       "s", "c", "o", "n", "n", "e", "c", "t", "e", "d",
                       " ", "D", "e", "d", "i", "c", "a", "t", "e", "d",
                       " ", "W", "i", "-", "F", "i", "\n">>,
               <<>>),
     NetshExit(TRUE, <<"E", "n", "a", "b", "l", "e", "d", " ", "D", "i",
                       "s", "c", "o", "n", "n", "e", "c", "t", "e", "d",
                       " ", "D", "e", "d", "i", "c", "a", "t", "e", "d",
                       " ", "W", "i", "-", "F", "i", "\n", "E", "n", "a",
                       "b", "l", "e", "d", " ", "C", "o", "n", "n", "e",
                       "c", "t", "e", "d", " ", "D", "e", "d", "i", "c",
                       "a", "t", "e", "d", " ", "E", "t", "h", "e", "r",
                       "n", "e", "t", "\n">>,
               <<>>)}

\* dns.join(", ").
RECURSIVE JoinComma(_)
JoinComma(list) ==
    IF list = <<>> THEN <<>>
    ELSE IF Len(list) = 1 THEN list[1]
    ELSE list[1] \o <<", ">> \o JoinComma(Tail(list))

\* The result of an operation that has no adapter, app.rs:853, 860, 875.
NoAdapterResultWarning == ResWarning(S_NoInternet)
NoAdapterResult == ResError(S_NoInternet)

\* The closure of handle_operation up to the send (app.rs:847-878), given
\* the outcomes of the netsh commands it may run.
RunOperation(operation, adapter_for_thread, out1, out2) ==
    IF adapter_for_thread = <<>>
    THEN Returned(NoAdapterResult, <<>>)
    ELSE LET name == adapter_for_thread[1]
         IN  CASE operation.kind = "Set" ->
                      set_dns_with_result(name, get_servers(operation.provider)[1],
                                          get_servers(operation.provider)[2], out1, out2)
               [] operation.kind = "Clear" -> clear_dns_with_result(name, out1)
               [] operation.kind = "Test" ->
                      LET r == get_current_dns(name, out1)
                      IN  IF r.panic THEN r
                          ELSE IF r.value[1] = <<>>
                          THEN Returned(ResWarning(<<"No DNS servers configured">>), r.cmds)
                          ELSE Returned(ResSuccess(<<"DNS test successful: ">>
                                                       \o JoinComma(r.value[1])), r.cmds)

\* The closure of handle_operation as far as the commands that have ended
\* take it (those of the records before, then the outcomes last): cmds ends
\* with the command to run next (as one that failed to start) while there is
\* one, and otherwise the closure has its result.
Progress(operation, adapter_for_thread, before, last) ==
    LET ended == [i \in DOMAIN before |-> OutcomeOf(before[i])] \o last
        outs == [i \in 1..2 |-> IF i <= Len(ended) THEN ended[i] ELSE NetshFailed]
    IN  RunOperation(operation, adapter_for_thread, outs[1], outs[2])

\* update_dns_state, app.rs:904-912.
update_dns_state_always_static(list) == DnsStatic(list)
update_dns_state(list) ==
    IF list = <<>> THEN DnsNone
    ELSE IF Len(list) = 1 /\ Contains(list[1], <<"d", "h", "c", "p">>) THEN DnsDhcp
    ELSE DnsStatic(list)

\* render_provider_selection, app.rs:756-759.
SyncAfterSelection(provider, primary, secondary) ==
    IF provider.name = "Custom" THEN custom(primary, secondary) ELSE provider

\* render_custom_dns_window, app.rs:1312-1316.
SyncAfterCustomWindowNever(provider, primary, secondary) == provider
SyncAfterCustomWindow(provider, primary, secondary) ==
    IF provider.name = "Custom" THEN custom(primary, secondary) ELSE provider

\* render_provider_selection, app.rs:651-661: the rows of the combo box.
providers(primary, secondary) ==
    <<electro, radar, shekan, bogzar, quad9, custom(primary, secondary)>>

\* The rows a run clicks, and the texts it types into the two fields.
ClickedRows == {1, 5, 6}
CustomTexts == {<<>>, Quad(1, 1, 1, 1)}

\* The two shapes of run explored: one operation with every choice of
\* provider and of custom addresses, or up to MaxOps operations on the
\* default provider.
OpsShapes ==
    {[sessions |-> 0, probes |-> 0, ops |-> 1, rows |-> ClickedRows, texts |-> CustomTexts],
     [sessions |-> 0, probes |-> 0, ops |-> MaxOps, rows |-> {}, texts |-> {}]}

\* The id given to the channel and worker of a new operation.
NextOp == Cardinality({c \in Ops : ow_pc[c] # "none"}) + 1

\* MyApp::new (app.rs:104-121) over #[derive(Default)].
InitOpsVars ==
    /\ o_pc = "poll"
    /\ o_op = <<>>
    /\ o_ret = "poll"
    /\ adapter = <<>>
    /\ dns = <<>>
    /\ dns_state = DnsNone
    /\ app_state = Idle
    /\ selected_provider = electro
    /\ custom_primary = <<>>
    /\ custom_secondary = <<>>
    /\ show_custom_dns_window = FALSE
    /\ show_clear_confirmation = FALSE
    /\ operation_sender = None
    /\ operation_receiver = None
    /\ op_chan = [c \in Ops |-> <<>>]
    /\ op_rx_alive = [c \in Ops |-> FALSE]
    /\ ow_pc = [c \in Ops |-> "none"]
    /\ ow_op = [c \in Ops |-> OpTest]
    /\ ow_adapter = [c \in Ops |-> <<>>]
    /\ ow_result = [c \in Ops |-> <<>>]
    /\ ow_cmds = [c \in Ops |-> <<>>]
    /\ ow_sends = [c \in Ops |-> 0]

opsFields == <<adapter, dns, dns_state, selected_provider, custom_primary,
               custom_secondary, show_custom_dns_window, show_clear_confirmation,
               operation_sender, operation_receiver>>
opsOthers == <<prog, limits, baseAll, renderAll, ipAll>>

\* self.operation_receiver = None, app.rs:391.
AfterResultKeep(receiver) == receiver
AfterResult(receiver) == None

\* update(), app.rs:388-397: one try_recv on operation_receiver; a result is
\* handled by handle_operation_result (app.rs:886-902), which after a Success
\* with a known adapter calls get_current_dns and waits for netsh.
PollOperation ==
    /\ prog = "ops"
    /\ o_pc = "poll"
    /\ IF operation_receiver # None /\ op_chan[operation_receiver] # <<>>
       THEN LET result == Head(op_chan[operation_receiver])
            IN  /\ op_chan' = [op_chan EXCEPT ![operation_receiver] = Tail(@)]
                /\ app_state' = [tag |-> result.tag, msg |-> result.msg]
                /\ IF result.tag = "Success" /\ adapter # <<>>
                   THEN /\ o_pc' = "wait_dns"
                        /\ UNCHANGED <<operation_sender, operation_receiver, op_rx_alive>>
                   ELSE /\ o_pc' = "status"
                        /\ operation_receiver' = AfterResult(operation_receiver)
                        /\ operation_sender' = None
                        /\ op_rx_alive' = [op_rx_alive EXCEPT ![operation_receiver] = FALSE]
       ELSE /\ o_pc' = "status"
            /\ UNCHANGED <<app_state, op_chan, operation_sender, operation_receiver,
                           op_rx_alive>>
    /\ UNCHANGED <<opsOthers, o_op, o_ret, adapter, dns, dns_state, selected_provider,
                   custom_primary, custom_secondary, show_custom_dns_window,
                   show_clear_confirmation, opsWorkers>>

\* handle_operation_result, app.rs:891-892, and update(), app.rs:391-392:
\* netsh has ended; dns and dns_state are refreshed and the channel ends are
\* dropped. A netsh that could not be run panics the UI thread.
HandleResultResume(out) ==
    /\ prog = "ops"
    /\ o_pc = "wait_dns"
    /\ LET r == get_current_dns(adapter[1], out)
       IN  IF r.panic
           THEN /\ o_pc' = "crashed"
                /\ UNCHANGED <<dns, dns_state, operation_sender, operation_receiver,
                               op_rx_alive>>
           ELSE /\ dns' = r.value[1]
                /\ dns_state' = update_dns_state(r.value[1])
                /\ operation_receiver' = AfterResult(operation_receiver)
                /\ operation_sender' = None
                /\ op_rx_alive' = [op_rx_alive EXCEPT ![operation_receiver] = FALSE]
                /\ o_pc' = "status"
    /\ UNCHANGED <<opsOthers, o_op, o_ret, adapter, app_state, selected_provider,
                   custom_primary, custom_secondary, show_custom_dns_window,
                   show_clear_confirmation, op_chan, opsWorkers>>

\* handle_operation, app.rs:833-836: app_state becomes Processing and
\* get_active_adapter waits for netsh; update() goes on at ret afterwards.
BeginHandleOperation(operation, ret) ==
    /\ NextOp <= limits.ops
    /\ app_state' = Processing
    /\ o_op' = <<operation>>
    /\ o_ret' = ret
    /\ o_pc' = "wait_adapter"

\* self.operation_receiver = Some(receiver), app.rs:841: the Receiver of the
\* new channel replaces the one held, which is dropped.
NewReceiverKeepsOld(held, new) == IF held # None THEN held ELSE new
NewReceiver(held, new) == new

\* handle_operation, app.rs:836-884: netsh has ended; the adapter is stored,
\* a new channel replaces the old ends and the worker thread is spawned.
HandleOperationResume(out) ==
    /\ prog = "ops"
    /\ o_pc = "wait_adapter"
    /\ IF ~out.ended
       THEN /\ o_pc' = "crashed"
            /\ UNCHANGED <<o_op, adapter, operation_sender, operation_receiver,
                           op_rx_alive, ow_pc, ow_op, ow_adapter>>
       ELSE /\ adapter' = get_active_adapter(out.stdout)
            /\ operation_sender' = NextOp
            /\ operation_receiver' = NewReceiver(operation_receiver, NextOp)
            /\ op_rx_alive' = [c \in Ops |-> c = NewReceiver(operation_receiver, NextOp)]
            /\ ow_pc' = [ow_pc EXCEPT ![NextOp] = "run"]
            /\ ow_op' = [ow_op EXCEPT ![NextOp] = o_op[1]]
            /\ ow_adapter' = [ow_adapter EXCEPT ![NextOp] = get_active_adapter(out.stdout)]
            /\ o_op' = <<>>
            /\ o_pc' = o_ret
    /\ UNCHANGED <<opsOthers, o_ret, dns, dns_state, app_state, selected_provider,
                   custom_primary, custom_secondary, show_custom_dns_window,
                   show_clear_confirmation, op_chan, ow_result, ow_cmds, ow_sends>>

\* render_status_section, app.rs:598-622: the Test DNS button.
RenderStatusSection(click) ==
    /\ prog = "ops"
    /\ o_pc = "status"
    /\ IF click
       THEN BeginHandleOperation(OpTest, "provider")
       ELSE /\ o_pc' = "provider"
            /\ UNCHANGED <<app_state, o_op, o_ret>>
    /\ UNCHANGED <<opsOthers, opsFields, op_chan, op_rx_alive, opsWorkers>>

\* render_provider_selection, app.rs:650-760: the row clicked, 0 for none.
RenderProviderSelection(row) ==
    /\ prog = "ops"
    /\ o_pc = "provider"
    /\ LET table == providers(custom_primary, custom_secondary)
           chosen == IF row = 0 THEN selected_provider ELSE table[row]
       IN  /\ selected_provider' = SyncAfterSelection(chosen, custom_primary,
                                                      custom_secondary)
           /\ show_custom_dns_window' =
                  IF row = 0 THEN show_custom_dns_window ELSE table[row].name = "Custom"
    /\ o_pc' = "buttons"
    /\ UNCHANGED <<opsOthers, o_op, o_ret, adapter, dns, dns_state, app_state,
                   custom_primary, custom_secondary, show_clear_confirmation,
                   operation_sender, operation_receiver, op_chan, op_rx_alive,
                   opsWorkers>>

\* render_action_buttons, app.rs:785-831: the Set and the Clear DNS buttons.
RenderActionButtons(click) ==
    /\ prog = "ops"
    /\ o_pc = "buttons"
    /\ CASE click = "set" ->
                /\ BeginHandleOperation(OpSet(selected_provider), "custom")
                /\ UNCHANGED show_clear_confirmation
         [] click = "clear" ->
                /\ show_clear_confirmation' = TRUE
                /\ o_pc' = "custom"
                /\ UNCHANGED <<app_state, o_op, o_ret>>
         [] OTHER ->
                /\ o_pc' = "custom"
                /\ UNCHANGED <<app_state, o_op, o_ret, show_clear_confirmation>>
    /\ UNCHANGED <<opsOthers, adapter, dns, dns_state, selected_provider, custom_primary,
                   custom_secondary, show_custom_dns_window, operation_sender,
                   operation_receiver, op_chan, op_rx_alive, opsWorkers>>

\* render_custom_dns_window, app.rs:1152-1317: nothing when the window is not
\* shown; otherwise the two fields as edited, Save or the close request end
\* the window, Clear empties the fields, and the provider is synchronised.
RenderCustomDnsWindow(primary, secondary, button) ==
    /\ prog = "ops"
    /\ o_pc = "custom"
    /\ IF ~show_custom_dns_window
       THEN /\ primary = custom_primary /\ secondary = custom_secondary /\ button = "none"
            /\ UNCHANGED <<custom_primary, custom_secondary, show_custom_dns_window,
                           selected_provider>>
       ELSE LET p == IF button = "clear" THEN <<>> ELSE primary
                s == IF button = "clear" THEN <<>> ELSE secondary
            IN  /\ custom_primary' = p
                /\ custom_secondary' = s
                /\ show_custom_dns_window' = (button \notin {"save", "close"})
                /\ selected_provider' = SyncAfterCustomWindow(selected_provider, p, s)
    /\ o_pc' = "confirm"
    /\ UNCHANGED <<opsOthers, o_op, o_ret, adapter, dns, dns_state, app_state,
                   show_clear_confirmation, operation_sender, operation_receiver,
                   op_chan, op_rx_alive, opsWorkers>>

\* update(), app.rs:494-552: the confirmation dialog of Clear DNS; the frame
\* ends.
ClearConfirmation(button) ==
    /\ prog = "ops"
    /\ o_pc = "confirm"
    /\ ~show_clear_confirmation => button = "none"
    /\ CASE button = "clear" ->
                /\ show_clear_confirmation' = FALSE
                /\ BeginHandleOperation(OpClear, "poll")
         [] button = "cancel" ->
                /\ show_clear_confirmation' = FALSE
                /\ o_pc' = "poll"
                /\ UNCHANGED <<app_state, o_op, o_ret>>
         [] OTHER ->
                /\ o_pc' = "poll"
                /\ UNCHANGED <<app_state, o_op, o_ret, show_clear_confirmation>>
    /\ UNCHANGED <<opsOthers, adapter, dns, dns_state, selected_provider, custom_primary,
                   custom_secondary, show_custom_dns_window, operation_sender,
                   operation_receiver, op_chan, op_rx_alive, opsWorkers>>

\* The closure of the worker thread without an adapter, app.rs:853, 860,
\* 875: the result is an Error and no netsh is run.
OpWorkerNoAdapter(c) ==
    /\ prog = "ops"
    /\ o_pc # "crashed"
    /\ ow_pc[c] = "run"
    /\ ow_adapter[c] = <<>>
    /\ LET r == Progress(ow_op[c], ow_adapter[c], <<>>, <<>>)
       IN  /\ ow_result' = [ow_result EXCEPT ![c] = r.value]
           /\ ow_cmds' = [ow_cmds EXCEPT ![c] = r.cmds]
    /\ ow_pc' = [ow_pc EXCEPT ![c] = "send"]
    /\ UNCHANGED <<opsOthers, opsUi, op_chan, op_rx_alive, ow_op, ow_adapter, ow_sends>>

\* The closure of the worker thread, app.rs:847-878, at the spawn() of
\* run_netsh (system.rs:13-21) for its next command: netsh runs from now on
\* (launched, not ended yet), or it could not be started and the thread
\* panics.
OpWorkerSpawn(c, started) ==
    /\ prog = "ops"
    /\ o_pc # "crashed"
    /\ ow_pc[c] = "run"
    /\ ow_adapter[c] # <<>>
    /\ LET r == Progress(ow_op[c], ow_adapter[c], ow_cmds[c], <<>>)
           next == r.cmds[Len(ow_cmds[c]) + 1]
           running == Ran(next.args, NetshLost)
       IN  ow_cmds' = [ow_cmds EXCEPT ![c] = Append(@, IF started THEN running ELSE next)]
    /\ ow_pc' = [ow_pc EXCEPT ![c] = IF started THEN "wait" ELSE "panicked"]
    /\ UNCHANGED <<opsOthers, opsUi, op_chan, op_rx_alive, ow_op, ow_adapter, ow_result,
                   ow_sends>>

\* The closure of the worker thread at the wait_with_output() of run_netsh
\* (system.rs:22): the command has ended; the thread panics, or goes on to
\* its next command, or has its result.
OpWorkerWait(c, out) ==
    /\ prog = "ops"
    /\ o_pc # "crashed"
    /\ ow_pc[c] = "wait"
    /\ out.launched
    /\ LET k == Len(ow_cmds[c])
           before == SubSeq(ow_cmds[c], 1, k - 1)
           r == Progress(ow_op[c], ow_adapter[c], before, <<out>>)
       IN  /\ ow_cmds' = [ow_cmds EXCEPT ![c] = Append(before, Ran(ow_cmds[c][k].args, out))]
           /\ IF Len(r.cmds) > k
              THEN /\ ow_pc' = [ow_pc EXCEPT ![c] = "run"]
                   /\ UNCHANGED ow_result
              ELSE /\ ow_pc' = [ow_pc EXCEPT ![c] = IF r.panic THEN "panicked" ELSE "send"]
                   /\ ow_result' = [ow_result EXCEPT ![c] = r.value]
    /\ UNCHANGED <<opsOthers, opsUi, op_chan, op_rx_alive, ow_op, ow_adapter, ow_sends>>

\* The closure of the worker thread, app.rs:880-882: the one send, its error
\* ignored; the thread ends and its locals are gone.
OpWorkerSend(c) ==
    /\ prog = "ops"
    /\ o_pc # "crashed"
    /\ ow_pc[c] = "send"
    /\ op_chan' = IF op_rx_alive[c]
                  THEN [op_chan EXCEPT ![c] = Append(@, ow_result[c][1])]
                  ELSE op_chan
    /\ ow_sends' = [ow_sends EXCEPT ![c] = @ + 1]
    /\ ow_pc' = [ow_pc EXCEPT ![c] = "done"]
    /\ ow_op' = [ow_op EXCEPT ![c] = OpTest]
    /\ ow_adapter' = [ow_adapter EXCEPT ![c] = <<>>]
    /\ ow_result' = [ow_result EXCEPT ![c] = <<>>]
    /\ ow_cmds' = [ow_cmds EXCEPT ![c] = <<>>]
    /\ UNCHANGED <<opsOthers, opsUi, op_rx_alive>>

NextOps ==
    \/ PollOperation
    \/ \E out \in DnsOutcomes : HandleResultResume(out)
    \/ \E out \in AdapterOutcomes : HandleOperationResume(out)
    \/ \E click \in BOOLEAN : RenderStatusSection(click)
    \/ \E row \in {0} \cup limits.rows : RenderProviderSelection(row)
    \/ \E click \in {"none", "set", "clear"} : RenderActionButtons(click)
    \/ \E primary \in limits.texts \cup {custom_primary},
          secondary \in limits.texts \cup {custom_secondary},
          button \in {"none", "save", "clear", "close"} :
           RenderCustomDnsWindow(primary, secondary, button)
    \/ \E button \in {"none", "cancel", "clear"} : ClearConfirmation(button)
    \/ \E c \in Ops : OpWorkerNoAdapter(c)
    \/ \E c \in Ops : \E started \in BOOLEAN : OpWorkerSpawn(c, started)
    \/ \E c \in Ops :
           \E out \in (IF ow_op[c].kind = "Test" THEN DnsOutcomes ELSE CmdOutcomes) :
               OpWorkerWait(c, out)
    \/ \E c \in Ops : OpWorkerSend(c)

\* ---------------------------------------------------------- specifications
InitIdle ==
    /\ failures = 0
    /\ InitDnsVars
    /\ InitV2Vars
    /\ InitTestVars
    /\ InitClassVars
    /\ InitRenderVars
    /\ InitIpVars
    /\ InitOpsVars

InitOps ==
    /\ prog = "ops"
    /\ limits \in OpsShapes
    /\ cl_L = 1
    /\ InitIdle

\* The DNS operations of dns-setter alone.
SpecOps == InitOps /\ [][NextOps]_vars

\* The steps of update() and of what it calls, and those of the worker
\* thread of operation c.
OpsUiStep ==
    \/ PollOperation
    \/ \E out \in DnsOutcomes : HandleResultResume(out)
    \/ \E out \in AdapterOutcomes : HandleOperationResume(out)
    \/ \E click \in BOOLEAN : RenderStatusSection(click)
    \/ \E row \in {0} \cup limits.rows : RenderProviderSelection(row)
    \/ \E click \in {"none", "set", "clear"} : RenderActionButtons(click)
    \/ \E primary \in limits.texts \cup {custom_primary},
          secondary \in limits.texts \cup {custom_secondary},
          button \in {"none", "save", "clear", "close"} :
           RenderCustomDnsWindow(primary, secondary, button)
    \/ \E button \in {"none", "cancel", "clear"} : ClearConfirmation(button)
OpsWorkerStep(c) ==
    \/ OpWorkerNoAdapter(c)
    \/ \E started \in BOOLEAN : OpWorkerSpawn(c, started)
    \/ \E out \in (IF ow_op[c].kind = "Test" THEN DnsOutcomes ELSE CmdOutcomes) :
           OpWorkerWait(c, out)
    \/ OpWorkerSend(c)

\* The DNS operations with update() called again and again (egui repaints
\* while Processing, app.rs:394-395) and every worker thread scheduled.
FairSpecOps ==
    /\ SpecOps
    /\ WF_vars(OpsUiStep)
    /\ \A c \in Ops : WF_vars(OpsWorkerStep(c))

InitIp ==
    /\ prog = "ip"
    /\ limits = [sessions |-> 0, probes |-> 0]
    /\ cl_L = 1
    /\ InitIdle

\* is_valid_ip and render_ip_input alone.
SpecIp == InitIp /\ [][NextIp]_vars

InitRender ==
    /\ prog = "render"
    /\ limits \in {[sessions |-> 0, probes |-> 0, variant |-> v] : v \in {"dns", "v2"}}
    /\ cl_L = 1
    /\ InitIdle

\* The rendering of runs of outcomes alone.
SpecRender == InitRender /\ [][NextRender]_vars

InitDns ==
    /\ prog = "dns"
    /\ limits \in Shapes
    /\ cl_L = 1
    /\ InitIdle

InitV2 ==
    /\ prog = "v2"
    /\ limits = [sessions |-> 0, probes |-> MaxV2Probes]
    /\ cl_L = 1
    /\ InitIdle

InitTest ==
    /\ prog = "test"
    /\ limits = [sessions |-> 0, probes |-> 0]
    /\ cl_L = 1
    /\ InitIdle

InitClass ==
    /\ prog = "class"
    /\ limits = [sessions |-> 0, probes |-> 0]
    /\ cl_L \in 1..MaxLatency
    /\ InitIdle

\* dns-setter alone.
SpecDns == InitDns /\ [][NextDns]_vars

\* 5-ping-test-v2 alone.
SpecV2 == InitV2 /\ [][NextV2]_vars

\* The classification alone.
SpecClass == InitClass /\ [][NextClass]_vars

\* 5-ping-test-v2 over a few probes with both threads scheduled: a thread
\* that holds a mutex goes on to release it, and a blocking lock() is
\* granted when the mutex is free again and again, ping_thread sleeping a
\* second between two uses of it (main.rs:101) while the waiting render
\* thread is woken at each unlock.
InitV2Locks ==
    /\ prog = "v2"
    /\ limits = [sessions |-> 0, probes |-> LockProbes]
    /\ cl_L = 1
    /\ InitIdle

FairSpecV2 ==
    /\ InitV2Locks /\ [][NextV2]_vars
    /\ WF_vars(V2PushHist)
    /\ WF_vars(V2SetCurrent)
    /\ SF_vars(LockCurrent)
    /\ SF_vars(LockHistory)

\* The three looping programs.
Init == InitDns \/ InitV2 \/ InitTest

Next == NextDns \/ NextV2 \/ NextTest

Spec == Init /\ [][Next]_vars

\* ------------------------------------------------------------------ claims
Alive(c) == w_pc[c] \in {"probe", "send", "sleep"}

\* C1: ping_history never holds more than 15 values, and it is always the
\* last 15 values received in the session, in the order they were received.
C1_HistoryIsLastReceived ==
    /\ Len(ping_history) <= HistoryCap
    /\ ping_history = LastN(received, HistoryCap)

\* More than 15 values were received and the oldest ones are gone.
C1_Witness ==
    /\ Len(received) >= HistoryCap + 2
    /\ Len(ping_history) = HistoryCap
    /\ ping_history[1] = received[Len(received) - HistoryCap + 1]

\* C2: at the end of every iteration of ping_thread, rtt_history holds at
\* most 5 lines and exactly the lines of the last 5 completed probes, oldest
\* first, none missing.
C2_HistoryHoldsLastProbes ==
    /\ Len(rtt_history) <= V2HistoryCap
    /\ v2_pc = "sleep" => rtt_history = LastN(v2_produced, V2HistoryCap)

\* C3: the values in ping_history are consecutive values of those the worker
\* of the session sent, in the order it sent them, ending at the last one
\* received.
C3_HistoryInSendOrder ==
    ping_receiver # None =>
        LET s == sent[ping_receiver]
            k == Len(s) - Len(chan[ping_receiver])
        IN  /\ Len(ping_history) <= k
            /\ ping_history = SubSeq(s, k - Len(ping_history) + 1, k)

\* Several values were pushed, a failed probe among them, and one more is
\* in flight.
C3_Witness ==
    /\ ping_receiver # None
    /\ Len(ping_history) >= 3
    /\ 0 \in Range(ping_history)
    /\ Len(chan[ping_receiver]) >= 1

\* C4: a worker whose receiver was dropped completes at most one further
\* probe, makes at most one send attempt, which fails, and is done right
\* after it; no send succeeds after the drop; until it is done it is never
\* blocked (its next step is enabled).
C4_BoundedCancellation ==
    \A c \in Sessions :
        (w_pc[c] # "none" /\ ~rx_alive[c]) =>
            /\ w_after[c] <= 1
            /\ w_fail[c] <= 1
            /\ w_late[c] = 0
            /\ w_fail[c] = 1 <=> w_pc[c] = "done"
            /\ w_after[c] = 1 => w_pc[c] \in {"send", "done"}
            /\ Alive(c) => ENABLED (\/ WorkerSend(c)
                                    \/ WorkerSleep(c)
                                    \/ \E ok \in BOOLEAN : WorkerProbe(c, ok))

\* A worker slept through the drop, probed once more, failed to send, ended.
C4_Witness ==
    \E c \in Sessions : w_pc[c] = "done" /\ w_after[c] = 1 /\ w_fail[c] = 1

\* C5 as stated: at most one probe worker thread is alive at a time.
C5_AtMostOneWorkerAlive ==
    Cardinality({c \in Sessions : Alive(c)}) <= 1

\* C5, amended: at most one live worker is attached to a receiver that still
\* exists, and it is the worker of the open session; every other live worker
\* belongs to a closed session.
C5_AtMostOneAttachedWorker ==
    /\ Cardinality({c \in Sessions : Alive(c) /\ rx_alive[c]}) <= 1
    /\ \A c \in Sessions : (Alive(c) /\ rx_alive[c]) => c = ping_receiver

\* The window was closed and opened again while the first worker still runs.
C5_Witness ==
    /\ Cardinality({c \in Sessions : Alive(c)}) >= 2
    /\ ping_receiver # None
    /\ Alive(ping_receiver)

\* C6: a worker is done only when the receiver of its channel is gone and a
\* send of its has failed.
C6_ExitOnlyOnFailedSend ==
    \A c \in Sessions :
        w_pc[c] = "done" => (~rx_alive[c] /\ w_fail[c] >= 1)

\* A worker ended after it had delivered values, a failed probe among them,
\* to a session that was closed later.
C6_Witness ==
    \E c \in Sessions : w_pc[c] = "done" /\ failures >= 1 /\ ping_receiver # c

\* C7: in the three loops a failed probe yields a value (0.0; None and the
\* line "Ping failed"; the text "Ping failed: <error>") and the thread stays
\* in its loop: the value is handed on, and after the sleep the next step is
\* the next probe.
C7_FailedProbeKeepsLooping ==
    [][/\ \A c \in Sessions :
            /\ (w_n'[c] = w_n[c] + 1 /\ failures' = failures + 1) =>
                   (w_pc'[c] = "send" /\ w_val'[c] = 0)
            /\ (w_pc[c] = "send" /\ w_val[c] = 0 /\ rx_alive[c]) =>
                   w_pc'[c] \in {"send", "sleep"}
            /\ w_pc[c] = "sleep" => w_pc'[c] \in {"sleep", "probe"}
       /\ (v2_n' = v2_n + 1 /\ failures' = failures + 1) =>
              /\ v2_pc' = "try_hist"
              /\ v2_rtt' = <<>>
              /\ HistText(v2_rtt') = S_PingFailed
              /\ CurText(v2_rtt') = S_PingFailed
       /\ v2_pc = "sleep" => v2_pc' \in {"sleep", "probe"}
       /\ v2_pc' \in {"probe", "try_hist", "push_hist", "try_cur", "set_cur", "sleep"}
       /\ (t_n' = t_n + 1 /\ failures' = failures + 1) =>
              (t_pc' = "print" /\ IsPrefix(S_PingFailedColon, t_text'))
       /\ t_pc = "sleep" => t_pc' \in {"sleep", "probe"}
       /\ t_pc' \in {"probe", "print", "sleep"}
      ]_vars

\* A dns-setter worker delivered the 0.0 of a failed probe and, after it,
\* the result of a later probe.
C7_Witness ==
    \E c \in Sessions :
        /\ 0 \in Range(sent[c])
        /\ sent[c][Len(sent[c])] # 0

\* C8: the poll step of a frame takes at most one value from the channel; a
\* value taken becomes ping_value and the newest entry of ping_history; with
\* no value or no session both are unchanged; no other step of the frame
\* receives.
C8_OnePollPerFrame ==
    [][/\ (ui_pc = "poll" /\ ui_pc' # "poll") =>
            IF ping_receiver # None /\ chan[ping_receiver] # <<>>
            THEN LET v == Head(chan[ping_receiver])
                     n == Len(ping_history')
                 IN  /\ chan'[ping_receiver] = Tail(chan[ping_receiver])
                     /\ ping_value' = v
                     /\ n >= 1
                     /\ ping_history'[n] = v
                     /\ \/ SubSeq(ping_history', 1, n - 1) = ping_history
                        \/ /\ ping_history # <<>>
                           /\ SubSeq(ping_history', 1, n - 1) = Tail(ping_history)
            ELSE UNCHANGED <<ping_value, ping_history, chan>>
       /\ ui_pc # "poll" =>
            \A c \in Sessions : rx_alive'[c] => Len(chan'[c]) >= Len(chan[c])
      ]_vars

\* A poll took one value and left another one queued.
C8_Witness ==
    /\ ui_pc = "titlebar"
    /\ ping_receiver # None
    /\ received # <<>>
    /\ ping_value = received[Len(received)]
    /\ ping_history[Len(ping_history)] = ping_value
    /\ Len(chan[ping_receiver]) >= 1

\* C9: with the ping window closed the history is empty, ping_value is 0.0
\* and both channel ends are None; the only receiver that exists is the one
\* the UI holds; and everything in ping_history was sent by the worker of the
\* open session on its channel.
C9_CloseResetsSession ==
    /\ ~show_second_window =>
           /\ ping_history = <<>>
           /\ ping_value = 0
           /\ ping_sender = None
           /\ ping_receiver = None
    /\ \A c \in Sessions : rx_alive[c] => c = ping_receiver
    /\ ping_receiver # None =>
           \A i \in DOMAIN ping_history :
               /\ ping_history[i] \in Range(sent[ping_receiver])
               /\ \A c \in Sessions \ {ping_receiver}, k \in 1..MaxProbes :
                      ping_history[i] # Elapsed(c, k)

\* A second session shows values while the worker of the first still runs.
C9_Witness ==
    /\ ping_receiver = 2
    /\ ping_history # <<>>
    /\ Alive(1)

\* C10: each renderer gives a latency L > 0 exactly one of green, yellow and
\* red: green iff L < 100, yellow iff 100 <= L < T, red iff L >= T, with
\* T = 200 in dns-setter and T = 150 in 5-ping-test-v2 (current line and
\* history line); the band never goes down when L goes up.
Rank(color) == CASE color = "green" -> 1 [] color = "yellow" -> 2
                 [] color = "red" -> 3 [] OTHER -> 0

InBand(color, L, T) ==
    /\ color \in {"green", "yellow", "red"}
    /\ color = "green" <=> L < 100
    /\ color = "yellow" <=> (100 <= L /\ L < T)
    /\ color = "red" <=> L >= T

C10_ThreeBands ==
    cl_done =>
        /\ InBand(cl_dns, cl_L, 200)
        /\ InBand(cl_cur, cl_L, 150)
        /\ InBand(cl_hist, cl_L, 150)
        /\ cl_prev # <<>> =>
               /\ Rank(cl_prev[1]) <= Rank(cl_dns)
               /\ Rank(cl_prev[2]) <= Rank(cl_cur)
               /\ Rank(cl_prev[3]) <= Rank(cl_hist)

\* 150 ms: warning in dns-setter, bad in 5-ping-test-v2, after 149 ms.
C10_Witness ==
    /\ cl_done
    /\ cl_L = 150
    /\ cl_prev # <<>>
    /\ cl_dns = "yellow"
    /\ cl_cur = "red"
    /\ cl_hist = "red"

\* The three band colours.
Bands == {"green", "yellow", "red"}

\* dns-setter has drawn a frame after the delivery of at least one outcome.
Drawn == prog = "render" /\ limits.variant = "dns" /\ rd_pc = "probe" /\ rd_k > 0

\* The steps of 5-ping-test-v2 that draw the current-ping line and the
\* history lines.
DrawsCurrent ==
    prog = "render" /\ limits.variant = "v2" /\ rd_pc = "probe" /\ rd_pc' = "between"
DrawsHistory ==
    prog = "render" /\ limits.variant = "v2" /\ rd_pc = "between" /\ rd_pc' = "probe"

\* The line shown from the top at place i while the history is drawn.
LineShown(i) == rtt_history[Len(rtt_history) + 1 - i]

\* The colour of the band of the latency a line of 5-ping-test-v2 states,
\* red for a line that states none.
BandOfLine(text) ==
    IF \E ms \in RenderLatencies : text \in {HistText(<<ms>>), CurText(<<ms>>)}
    THEN V2BandColor(CHOOSE ms \in RenderLatencies :
                         text \in {HistText(<<ms>>), CurText(<<ms>>)})
    ELSE "red"

\* C11 (as stated): in both colouring variants a failed probe is drawn in a
\* neutral colour, none of green, yellow and red: as the latest value of
\* dns-setter, as the current-ping line and as a history line of
\* 5-ping-test-v2.
C11_FailureIsNeutral ==
    /\ [](Drawn /\ ~rd_in[rd_k].ok => ping_color \notin Bands)
    /\ [][/\ DrawsCurrent /\ current_ping = S_PingFailed => r_color' \notin Bands
          /\ DrawsHistory =>
                 \A i \in DOMAIN r_hist_colors' :
                     LineShown(i) = S_PingFailed => r_hist_colors'[i] \notin Bands]_vars

\* C11 (amended): dns-setter draws a failed latest probe light gray, which is
\* none of the band colours; 5-ping-test-v2 draws the line of a failed probe
\* red, the colour of a bad latency, both as current-ping line and as
\* history line.
C11_FailureGrayInDnsRedInV2 ==
    /\ [](/\ Drawn /\ ~rd_in[rd_k].ok => ping_color = "light_gray"
          /\ "light_gray" \notin Bands)
    /\ [][/\ DrawsCurrent /\ current_ping = S_PingFailed => r_color' = "red"
          /\ DrawsHistory =>
                 /\ Len(r_hist_colors') = Len(rtt_history)
                 /\ \A i \in DOMAIN r_hist_colors' :
                        LineShown(i) = S_PingFailed => r_hist_colors'[i] = "red"]_vars

\* 5-ping-test-v2 has drawn a frame with the line of a failed probe as
\* current-ping line and as newest history line, above a bad latency in the
\* same red.
C11_Witness ==
    /\ prog = "render" /\ limits.variant = "v2"
    /\ rd_pc = "probe"
    /\ current_ping = S_PingFailed
    /\ r_color = "red"
    /\ Len(rtt_history) = 2
    /\ rtt_history[2] = S_PingFailed
    /\ rtt_history[1] = HistText(<<250>>)
    /\ r_hist_colors = <<"red", "red">>

\* C12 (as stated): the latest value and every history entry are coloured
\* each from its own value: the chart point of dns-setter for an entry has
\* the classification of that entry, the lines of 5-ping-test-v2 have the
\* classification of their own result.
C12_EntriesColouredIndependently ==
    /\ [](Drawn =>
              /\ ping_color = PingColor(ping_value)
              /\ \A i \in DOMAIN chart_colors :
                     chart_colors[i] = PingColor(ping_history[i]))
    /\ [][/\ DrawsCurrent => r_color' = BandOfLine(current_ping)
          /\ DrawsHistory =>
                 \A i \in DOMAIN r_hist_colors' :
                     r_hist_colors'[i] = BandOfLine(LineShown(i))]_vars

\* C12 (amended): both variants colour the latest value from itself and
\* 5-ping-test-v2 colours every history line from that line's result alone;
\* dns-setter draws every point of the chart in the one colour that
\* classifies the current ping_value.
C12_ChartFollowsCurrentValue ==
    /\ [](Drawn =>
              /\ ping_color = PingColor(get_ping_result(rd_in[rd_k].ok, rd_in[rd_k].ms))
              /\ \A i \in DOMAIN chart_colors : chart_colors[i] = ping_color
              /\ Len(ping_history) > 1 => Len(chart_colors) = Len(ping_history))
    /\ [][/\ DrawsCurrent => r_color' = BandOfLine(current_ping)
          /\ DrawsHistory =>
                 /\ Len(r_hist_colors') = Len(rtt_history)
                 /\ \A i \in DOMAIN r_hist_colors' :
                        r_hist_colors'[i] = BandOfLine(LineShown(i))]_vars

\* A chart of dns-setter with a good entry and a bad latest entry: both
\* points are drawn red.
C12_Witness ==
    /\ Drawn
    /\ Len(chart_colors) >= 2
    /\ PingColor(ping_history[1]) = "green"
    /\ PingColor(ping_history[Len(ping_history)]) = "red"
    /\ chart_colors[1] = "red"
    /\ ping_color = "red"

\* C13: a failed probe and a successful probe that took 0 whole milliseconds
\* give dns-setter the same value 0: the same history entry and, once drawn,
\* the same light gray; the fields of the UI are those of the run in which
\* every failure is replaced by a success of 0 ms.
C13_FailureSameAsZero ==
    prog = "render" /\ limits.variant = "dns" =>
        /\ Len(ping_history) = rd_k
        /\ \A i \in 1..rd_k :
               ping_history[i] = IF rd_in[i].ok THEN rd_in[i].ms ELSE 0
        /\ rd_k > 0 => ping_value = ping_history[rd_k]
        /\ Drawn /\ (~rd_in[rd_k].ok \/ rd_in[rd_k].ms = 0) => ping_color = "light_gray"

\* A run in which a failure and a success of 0 ms have both been delivered
\* and drawn.
C13_Witness ==
    /\ Drawn
    /\ \E i, j \in 1..rd_k :
           /\ ~rd_in[i].ok
           /\ rd_in[j].ok /\ rd_in[j].ms = 0
           /\ ping_history[i] = ping_history[j]
    /\ ping_color = "light_gray"


\* Four dot-separated parts, each of 1 to 3 decimal digits and of value at
\* most 255.
IsDottedQuad(text) ==
    LET parts == Split(text, ".")
    IN  /\ Len(parts) = 4
        /\ \A i \in DOMAIN parts :
               /\ Len(parts[i]) \in 1..3
               /\ \A j \in DOMAIN parts[i] : IsDigit(parts[i][j])
               /\ DigitsValue(parts[i]) <= 255

\* C14: is_valid_ip returns true exactly for the texts of four dot-separated
\* parts of 1 to 3 decimal digits each with a value in 0..255, and
\* render_ip_input returns true exactly for those and for the empty text.
C14_ValidIffDottedQuad ==
    prog = "ip" /\ ip_pc = "validated" =>
        /\ ip_valid = IsDottedQuad(ip)
        /\ ip_reported = (ip = <<>> \/ IsDottedQuad(ip))

\* C15: the UI thread never performs a blocking operation; in dns-setter it
\* is never waiting for a netsh subprocess to end.
C15_UiThreadNeverWaits ==
    prog = "ops" => o_pc \notin {"wait_adapter", "wait_dns"}

\* Some operation has been started.
OpStarted == \E c \in Ops : ow_pc[c] # "none"

\* C16: at the end of every update() frame a selected Custom provider holds
\* the contents of the two custom fields, and a Set operation for Custom is
\* started with the contents the fields have at that moment.
C16_CustomProviderMatchesFields ==
    prog = "ops" =>
        /\ o_pc = "poll" /\ selected_provider.name = "Custom" =>
               selected_provider = custom(custom_primary, custom_secondary)
        /\ o_pc = "wait_adapter" /\ o_op[1].kind = "Set"
             /\ o_op[1].provider.name = "Custom" =>
               o_op[1].provider = custom(custom_primary, custom_secondary)

\* A frame has ended with an address typed into the first field, Custom
\* selected, and a worker started for Set of that custom provider.
C16_Witness ==
    /\ prog = "ops"
    /\ o_pc = "poll"
    /\ custom_primary # <<>>
    /\ selected_provider = custom(custom_primary, custom_secondary)
    /\ \E c \in Ops : /\ ow_pc[c] = "run"
                      /\ ow_op[c] = OpSet(custom(custom_primary, custom_secondary))

AppError(msg) == [tag |-> "Error", msg |-> msg]

\* C17: an operation started when get_active_adapter returned None computes
\* Error("No Internet Connection Found") without running any netsh command
\* and without panicking, that is the result the UI receives for it, and
\* once the UI has handled it app_state is Error with that message.
C17_NoAdapterGivesFixedError ==
    prog = "ops" =>
        /\ \A c \in Ops :
               ow_pc[c] \in {"send", "panicked"} /\ ow_adapter[c] = <<>> =>
                   /\ ow_pc[c] = "send"
                   /\ ow_result[c] = <<ResError(S_NoInternet)>>
                   /\ ow_cmds[c] = <<>>
        /\ operation_receiver # None /\ adapter = <<>> =>
               \A i \in DOMAIN op_chan[operation_receiver] :
                   op_chan[operation_receiver][i] = ResError(S_NoInternet)
        /\ OpStarted /\ adapter = <<>> /\ operation_receiver = None
             /\ o_pc \notin {"wait_adapter", "crashed"} =>
               app_state = AppError(S_NoInternet)

\* An operation without adapter has been handled: app_state shows the fixed
\* message.
C17_Witness ==
    /\ prog = "ops"
    /\ OpStarted
    /\ adapter = <<>>
    /\ operation_receiver = None
    /\ o_pc = "status"
    /\ app_state = AppError(S_NoInternet)

\* C18: when the closure has run set_dns_with_result or
\* clear_dns_with_result, a command that exited with a failure status makes
\* the result an Error whose message contains the command's stderr text, and
\* the result is Success only if every command of the function was run and
\* exited successfully.
C18_FailedCommandGivesStderr ==
    prog = "ops" =>
        \A c \in Ops :
            ow_pc[c] = "send" /\ ow_adapter[c] # <<>> /\ ow_op[c].kind \in {"Set", "Clear"} =>
                /\ \A i \in DOMAIN ow_cmds[c] :
                       ~ow_cmds[c][i].success =>
                           /\ ow_result[c][1].tag = "Error"
                           /\ Contains(ow_result[c][1].msg,
                                       FromUtf8Lossy(ow_cmds[c][i].stderr))
                /\ ow_result[c][1].tag = "Success" =>
                       /\ Len(ow_cmds[c]) = IF ow_op[c].kind = "Set" THEN 2 ELSE 1
                       /\ \A i \in DOMAIN ow_cmds[c] : ow_cmds[c][i].success
                /\ ow_result[c][1].tag \in {"Success", "Error"}

\* A Set whose first command succeeded and whose second failed with a
\* non-empty stderr is about to send its Error.
C18_Witness ==
    /\ prog = "ops"
    /\ \E c \in Ops :
           /\ ow_pc[c] = "send"
           /\ ow_op[c].kind = "Set"
           /\ Len(ow_cmds[c]) = 2
           /\ ow_cmds[c][1].success
           /\ ~ow_cmds[c][2].success /\ ow_cmds[c][2].stderr # <<>>
           /\ ow_result[c][1].tag = "Error"

\* C19: no worker thread panics, and a worker thread that has ended has sent
\* exactly one OperationResult.
C19_WorkerNeverPanics ==
    prog = "ops" =>
        \A c \in Ops :
            /\ ow_pc[c] # "panicked"
            /\ ow_pc[c] = "done" => ow_sends[c] = 1
            /\ ow_pc[c] \in {"none", "run", "wait", "send"} => ow_sends[c] = 0

\* PING_REQUEST is false wherever update() is except between title_bar_ui
\* and the swap.
RequestOnlyBeforeSwap == prog = "dns" /\ ui_pc # "request" => ~ping_request

\* C20: PING_REQUEST is false whenever update() is past the swap, so at the
\* end of every frame; the step of update() that takes a stored click opens
\* the window, starts a session (channel and worker) only when none exists,
\* and with a session open it spawns no worker, creates no channel and
\* leaves ping_history and ping_value as they are.
C20_ClickTakenInFrame ==
    /\ []RequestOnlyBeforeSwap
    /\ [][prog = "dns" /\ ui_pc = "request" /\ ui_pc' # "request" =>
              /\ ~ping_request'
              /\ ping_history' = ping_history
              /\ ping_value' = ping_value
              /\ chan' = chan
              /\ IF ping_request /\ ping_sender = None
                 THEN /\ show_second_window'
                      /\ ping_sender' # None /\ ping_receiver' = ping_sender'
                      /\ w_pc[ping_sender'] = "none" /\ w_pc'[ping_sender'] = "probe"
                      /\ \A c \in Sessions \ {ping_sender'} : w_pc'[c] = w_pc[c]
                 ELSE /\ ping_request => show_second_window'
                      /\ ~ping_request => show_second_window' = show_second_window
                      /\ ping_sender' = ping_sender
                      /\ ping_receiver' = ping_receiver
                      /\ rx_alive' = rx_alive
                      /\ w_pc' = w_pc]_vars

\* title_bar_ui has stored a click while a session with a non-empty history
\* is open; update() is about to take it.
C20_Witness ==
    /\ prog = "dns"
    /\ ui_pc = "request"
    /\ ping_request
    /\ ping_sender # None
    /\ show_second_window
    /\ ping_history # <<>>

\* update() has taken a result from the channel of the current operation in
\* this step.
ResultTaken ==
    /\ prog = "ops"
    /\ o_pc = "poll"
    /\ operation_receiver # None
    /\ Len(op_chan'[operation_receiver]) < Len(op_chan[operation_receiver])

\* A text that is, from its first character to its last, four groups of 1 to
\* 3 decimal digits separated by dots.
IsQuadShaped(word) ==
    LET parts == Split(word, ".")
    IN  /\ Len(parts) = 4
        /\ \A i \in DOMAIN parts :
               /\ Len(parts[i]) \in 1..3
               /\ \A j \in DOMAIN parts[i] : parts[i][j] \in DecimalDigits

\* C21: handling a result copies its kind and message into app_state; after
\* an Error or a Warning nothing else of the application changes and netsh
\* is not run; after a Success with a known adapter the DNS list is read
\* again and the handler ends in one of two ways. When netsh has ended, dns
\* holds the addresses read, each four groups of decimal digits, and
\* dns_state becomes None for an empty list and Static with that list
\* otherwise. When netsh could not be run, the UI thread panics inside the
\* read: nothing of the application changes, then or later, and update()
\* does not run again. dns and dns_state change at no other step.
C21_RefreshOnlyAfterSuccess ==
    [][/\ ResultTaken =>
              LET result == Head(op_chan[operation_receiver])
              IN  /\ app_state' = [tag |-> result.tag, msg |-> result.msg]
                  /\ dns' = dns /\ dns_state' = dns_state
                  /\ adapter' = adapter
                  /\ result.tag \in {"Error", "Warning"} => o_pc' = "status"
                  /\ result.tag = "Success" /\ adapter # <<>> => o_pc' = "wait_dns"
       /\ prog = "ops" /\ o_pc = "wait_dns" =>
              /\ app_state.tag = "Success" /\ app_state' = app_state
              /\ adapter # <<>> /\ adapter' = adapter
              /\ o_pc' \in {"wait_dns", "status", "crashed"}
       /\ prog = "ops" /\ o_pc = "wait_dns" /\ o_pc' = "status" =>
              /\ \A i \in DOMAIN dns' : IsQuadShaped(dns'[i])
              /\ dns_state' = IF dns' = <<>> THEN DnsNone ELSE DnsStatic(dns')
       /\ prog = "ops" /\ o_pc' = "crashed" =>
              /\ o_pc \in {"wait_adapter", "wait_dns", "crashed"}
              /\ UNCHANGED <<opsFields, app_state>>
       /\ prog = "ops" /\ o_pc = "crashed" => o_pc' = "crashed"
       /\ prog = "ops" /\ (dns' # dns \/ dns_state' # dns_state) =>
              o_pc = "wait_dns" /\ o_pc' = "status"]_vars

\* An operation has ended in an Error after an earlier one succeeded and the
\* refresh found static servers, one written with a digit outside ASCII:
\* dns_state is as the refresh left it.
C21_Witness ==
    /\ prog = "ops"
    /\ o_pc = "status"
    /\ app_state.tag = "Error"
    /\ dns_state.tag = "Static"
    /\ \E i \in DOMAIN dns : dns[i][1] = "U+06F1"

\* C22: between two frames of update() the window is shown exactly when the
\* Sender is held, and exactly when the Receiver is held.
C22_SessionFieldsAgree ==
    prog = "dns" /\ ui_pc = "poll" =>
        /\ show_second_window <=> ping_sender # None
        /\ ping_sender # None <=> ping_receiver # None

\* A frame has ended with the window closed again after a session had been
\* opened, its worker still alive.
C22_Witness ==
    /\ prog = "dns"
    /\ ui_pc = "poll"
    /\ ~show_second_window
    /\ ping_sender = None
    /\ \E c \in Sessions : Alive(c)

\* C23: ping_value is the newest element of ping_history, and 0 when the
\* history is empty.
C23_ValueIsNewestEntry ==
    prog = "dns" =>
        IF ping_history # <<>>
        THEN ping_value = ping_history[Len(ping_history)]
        ELSE ping_value = 0

\* A second session, opened after the first was closed, has received two
\* different values; the newest is the one shown.
C23_Witness ==
    /\ prog = "dns"
    /\ Len(ping_history) >= 2
    /\ ping_history[1] # ping_history[Len(ping_history)]
    /\ ping_value = ping_history[Len(ping_history)]
    /\ \E c \in Sessions : w_pc[c] # "none" /\ ~rx_alive[c]

\* What a probe of ping_thread can have yielded so far.
ProbedRtts == {<<>>} \cup {<<Elapsed(1, k)>> : k \in 1..v2_n}

\* C24: at the end of every iteration of ping_thread the text of
\* current_ping and the newest line of rtt_history are those of one and the
\* same probe result.
C24_CurrentIsNewestEntry ==
    prog = "v2" /\ v2_pc = "sleep" /\ rtt_history # <<>> =>
        \E rtt \in ProbedRtts :
            /\ current_ping = CurText(rtt)
            /\ rtt_history[Len(rtt_history)] = HistText(rtt)

\* No thread holds both mutexes; ping_thread is never waiting: whatever the
\* state of the locks, its next step can be taken, and a thread that holds a
\* mutex is at the step that releases it.
V2NoHoldAndWait ==
    prog = "v2" =>
        /\ ~(cur_lock = "worker" /\ hist_lock = "worker")
        /\ ~(cur_lock = "render" /\ hist_lock = "render")
        /\ v2_pc = "try_hist" => ENABLED V2TryLockHistory
        /\ v2_pc = "try_cur" => ENABLED V2TryLockCurrent
        /\ hist_lock = "worker" <=> v2_pc = "push_hist"
        /\ cur_lock = "worker" <=> v2_pc = "set_cur"
        /\ hist_lock = "render" <=> r_pc = "draw_history"
        /\ cur_lock = "render" <=> r_pc = "clone_current"

\* C25: the two threads never deadlock on the two mutexes: ping_thread never
\* waits for a lock, no thread holds both locks, and each blocking lock() of
\* the render loop is eventually granted.
C25_NoDeadlockOnMutexes ==
    /\ []V2NoHoldAndWait
    /\ (prog = "v2" /\ r_pc = "draw_current") ~> (r_pc = "clone_current")
    /\ (prog = "v2" /\ r_pc = "lock_history") ~> (r_pc = "draw_history")

\* The render loop is waiting in lock() for the rtt_history mutex, which
\* ping_thread holds.
C25_Witness ==
    /\ prog = "v2"
    /\ r_pc = "lock_history"
    /\ hist_lock = "worker"
    /\ v2_n >= 2

\* C26: between two frames of update() an operation is in progress
\* (app_state is Processing) exactly when the Receiver of an operation is
\* held, and the Sender is held exactly when the Receiver is.
C26_ProcessingIffReceiver ==
    prog = "ops" /\ o_pc = "poll" =>
        /\ app_state = Processing <=> operation_receiver # None
        /\ operation_sender # None <=> operation_receiver # None

\* A frame has ended with the result of an earlier operation applied and
\* the channel ends dropped, the worker of that operation done.
C26_Witness ==
    /\ prog = "ops"
    /\ o_pc = "poll"
    /\ app_state.tag \in {"Success", "Error", "Warning"}
    /\ operation_receiver = None
    /\ \E c \in Ops : ow_pc[c] = "done"

\* The operation started last.
LatestOp == NextOp - 1

\* C27: a result is taken only from the channel of the operation started
\* last, and app_state leaves Processing only by taking such a result; the
\* result of an operation that was replaced while in progress stays unread
\* in its channel and changes neither app_state nor dns nor dns_state.
C27_OnlyLatestResultApplied ==
    [][prog = "ops" =>
           /\ \A c \in Ops :
                  Len(op_chan'[c]) < Len(op_chan[c]) =>
                      /\ c = LatestOp
                      /\ c = operation_receiver
                      /\ app_state = Processing
                      /\ app_state' = [tag |-> Head(op_chan[c]).tag,
                                       msg |-> Head(op_chan[c]).msg]
           /\ app_state = Processing /\ app_state' # Processing =>
                  /\ operation_receiver = LatestOp
                  /\ Len(op_chan'[LatestOp]) < Len(op_chan[LatestOp])
           /\ (dns' # dns \/ dns_state' # dns_state) =>
                  /\ operation_receiver = LatestOp
                  /\ app_state.tag = "Success"
                  /\ \A c \in Ops : c # LatestOp => op_chan'[c] = op_chan[c]]_vars

\* The first operation was replaced by a second while in progress: its
\* result lies unread in its channel, whose Receiver is gone, and the result
\* of the second has ended the Processing state.
C27_Witness ==
    /\ prog = "ops"
    /\ LatestOp = 2
    /\ op_chan[1] # <<>>
    /\ ~op_rx_alive[1]
    /\ ow_pc[2] = "done"
    /\ app_state.tag \in {"Success", "Error", "Warning"}
    /\ Head(op_chan[1]).tag # app_state.tag

\* C28: whenever app_state is Processing it later is Success, Error or
\* Warning, as long as the application runs (a panic of the UI thread ends
\* it).
C28_ProcessingEnds ==
    (prog = "ops" /\ app_state = Processing)
        ~> (app_state.tag \in {"Success", "Error", "Warning"} \/ o_pc = "crashed")

=============================================================================
